---- MODULE Spec2Model ----
(***************************************************************************)
(* Chrono::Granular (ezhangle/chrono): the unit system, the domain         *)
(* partition, the particle store's device buffers, the triangle soup and   *)
(* the coupled driver loops, as state machines.                            *)
(*                                                                         *)
(* Real-valued quantities (double/float in the source) are exact           *)
(* rationals [n |-> numerator, d |-> denominator], d > 0, so that ceil()   *)
(* and the comparisons are computed, not assumed.  M_PI is the rational    *)
(* PiNum/PiDen.  A division by zero gives the IEEE value Inf or NaN.       *)
(***************************************************************************)
EXTENDS Integers, Sequences, FiniteSets, TLC

(* ------------------------------------------------------------------ *)
(* Bounds of the model                                                  *)
(* ------------------------------------------------------------------ *)
MaxBox == 5
MaxRadius == 2
MaxK == 2
MaxGrav == 1
MaxUndef == 1
MaxSetups == 2
MaxMeshes == 2
MaxCleanups == 2
MaxInits == 2
MaxSteps == 2
MaxCoord == 1

\* cap of one SD's membership list (a macro of ChGranularDefines.h)
MAX_COUNT_OF_DEs_PER_SD == 2

PiNum == 22
PiDen == 7

Axes == {"L", "D", "H"}
BoxExtents == 1..MaxBox
Radii == 1..MaxRadius
Densities == {1}
Moduli == 1..MaxK
GravMagnitudes == 0..MaxGrav
PsiFactors == {[T |-> 1, h |-> 1, L |-> 1], [T |-> 2, h |-> 1, L |-> 4]}
AvgTargets == {[L |-> 1, D |-> 1, H |-> 1], [L |-> 1, D |-> 2, H |-> 1]}
UndefinedUInt == 0..MaxUndef

\* the device pointers of the particle store
PositionBuffers == {"p_d_CM_X", "p_d_CM_Y", "p_d_CM_Z"}
VelocityBuffers == {"p_d_CM_XDOT", "p_d_CM_YDOT", "p_d_CM_ZDOT"}
UpdateBuffers == {"p_d_CM_XDOT_update", "p_d_CM_YDOT_update", "p_d_CM_ZDOT_update"}
SDBuffers == {"p_device_SD_NumOf_DEs_Touching", "p_device_DEs_in_SD_composite"}
Buffers == PositionBuffers \cup VelocityBuffers \cup UpdateBuffers \cup SDBuffers

\* point clouds a sampler may return, already truncated to int
Pt(x, y, z) == [x |-> x, y |-> y, z |-> z]
SampledClouds ==
    { <<>>,
      <<Pt(0, 0, 0)>>,
      <<Pt(1, 0, -1), Pt(0, 2, 1)>>,
      <<Pt(-1, -1, -1), Pt(1, 1, 1), Pt(0, 1, 0)>>,
      <<Pt(1, 1, 1), Pt(1, 1, 1), Pt(1, 1, 0)>> }

(* ------------------------------------------------------------------ *)
(* Exact arithmetic                                                     *)
(* ------------------------------------------------------------------ *)
Rat(n, d) == [n |-> n, d |-> d]
Inf == Rat(1, 0)
NaN == Rat(0, 0)
IsFinite(x) == x.d # 0
RatLeq(a, b) == a.n * b.d <= b.n * a.d
RatEq(a, b) == a.n * b.d = b.n * a.d

\* std::ceil(n / d) for n >= 0, d > 0
CeilDiv(n, d) == (n + d - 1) \div d

\* sqrt() of a perfect square
ISqrt(s) == CHOOSE q \in 0..s : q * q = s

\* IEEE division of two reals: x / y
FDiv(x, y) ==
    IF y.n = 0
    THEN (IF x.n = 0 THEN NaN ELSE Inf)
    ELSE IF y.n > 0 THEN Rat(x.n * y.d, x.d * y.n)
    ELSE Rat(-(x.n * y.d), x.d * (-y.n))

RatMul(a, b) == Rat(a.n * b.n, a.d * b.d)
RatAdd(a, b) == Rat(a.n * b.d + b.n * a.d, a.d * b.d)

\* ChVector and ChTriangle
Vec(x, y, z) == [x |-> x, y |-> y, z |-> z]
VSub(a, b) == Vec(a.x - b.x, a.y - b.y, a.z - b.z)
VCross(a, b) == Vec(a.y * b.z - a.z * b.y, a.z * b.x - a.x * b.z, a.x * b.y - a.y * b.x)
VDot(a, b) == a.x * b.x + a.y * b.y + a.z * b.z
VScale(sc, a) == Vec(sc.x * a.x, sc.y * a.y, sc.z * a.z)

Tri(p1, p2, p3) == [p1 |-> p1, p2 |-> p2, p3 |-> p3]

VARIABLES
    \* ---- ChGRN_DE_MONODISP_SPH_IN_BOX_SMC: configuration ----
    sphere_radius, sphere_density, box, accGrav,
    modulusYoung_SPH2SPH, modulusYoung_SPH2WALL, PSI, AVERAGE_SPHERES_PER_SD,
    \* ---- unit system (switch_to_SimUnits) ----
    MASS_UNIT, K_stiffness, TIME_UNIT, LENGTH_UNIT,
    monoDisperseSphRadius_SU, reciprocal_sphDiam_SU, gravAcc_factor_SU,
    \* ---- partition (partition_BD) ----
    SD_SU, nSDs_SU, nSDs, BD_frame, BD_frame_dot,
    \* position of the set-up driver: the name of the next configuration call,
    \* then "units" (unit system derived) and "partitioned"
    stage,
    \* ---- ChGRN_MONODISP_SPH_IN_BOX_NOFRIC_SMC: host particle arrays ----
    nDEs, h_X_DE, h_Y_DE, h_Z_DE, h_XDOT_DE, h_YDOT_DE, h_ZDOT_DE, hostGenerated,
    \* ---- device memory: ptr[b] is 0 (nullptr) or the index in heap of the
    \* allocation buffer pointer b holds; heap[i] is one cudaMalloc'ed block ----
    ptr, heap, nullFrees, setups,
    \* ---- ChSystemGranular_MonodisperseSMC_trimesh ----
    \* the two managed containers (meshSoup_DEVICE, tri_params): live, frees
    containers,
    \* the fields of *meshSoup_DEVICE and *tri_params; a pointer field is -1
    \* (never assigned), 0 (nullptr) or the index in mheap of its block
    soup, tri_params,
    \* the managed blocks the soup's pointer fields were given
    mheap,
    \* what went wrong so far: the soup read after its release, cudaFree of a
    \* pointer never assigned, an access through such a pointer, a fatal exit
    meshErr,
    \* the object's lifetime: "alive", "released" (cleanup ran), "destroyed"
    life, loads,
    \* sphere-to-mesh parameters in user units, the rolling mode, the output
    \* mode, the mesh-collision flag, and the boundary conditions created so
    \* far (BC_active[h + 1] is whether the one with handle h is active)
    meshCfg,
    \* what the last advance_simulation evaluated: sphere-triangle contact or
    \* not, and the handles of the boundary conditions that gave a force
    contact,
    \* the scale factors initializeSpheres derives (MASS_SU2UU, ...), or "uninit"
    SU2UU,
    \* SD_numTrianglesTouching, SD_TriangleCompositeOffsets, triangles_in_SD_composite
    triSD,
    \* number of initialize() calls and of advance_simulation() calls
    initialized, steps,
    \* the caller's array collectGeneralizedForcesOnMeshSoup fills
    genForcesOnSoup,
    \* the last <filename>_mesh.vtk written: its points, or <<>>
    meshFile,
    \* the broad phase ended in the fatal capacity error / wrote outside the
    \* block it was given
    capacityErr, outOfBlock,
    \* one triangle on its way into the soup: as loaded, and as stored
    winding,
    \* one step of the engine on a few spheres, unit of work by unit of work
    kernel,
    \* the demo program that drives the simulator, its position, what it has
    \* called so far, and the coupling exchange since the last advance
    demo, pc, engine, coupling,
    \* the operation that made the last step
    lastOp

cfgVars == <<sphere_radius, sphere_density, box, accGrav,
             modulusYoung_SPH2SPH, modulusYoung_SPH2WALL, PSI, AVERAGE_SPHERES_PER_SD>>
unitVars == <<MASS_UNIT, K_stiffness, TIME_UNIT, LENGTH_UNIT,
              monoDisperseSphRadius_SU, reciprocal_sphDiam_SU, gravAcc_factor_SU>>
partVars == <<SD_SU, nSDs_SU, nSDs, BD_frame, BD_frame_dot>>
hostVars == <<nDEs, h_X_DE, h_Y_DE, h_Z_DE, h_XDOT_DE, h_YDOT_DE, h_ZDOT_DE, hostGenerated>>
devVars == <<ptr, heap, nullFrees, setups>>
sdVars == <<capacityErr, outOfBlock>>
storeVars == <<hostVars, devVars, sdVars>>
unitsAndStore == <<cfgVars, unitVars, partVars, stage, storeVars>>
soupVars == <<containers, soup, tri_params, mheap, meshErr, life, loads>>
meshRunVars == <<meshCfg, contact, SU2UU, triSD, initialized, steps, genForcesOnSoup, meshFile>>
meshVars == <<soupVars, meshRunVars>>
driverVars == <<demo, pc, engine, coupling>>
beyondStore == <<meshVars, winding, kernel>>
beyondMesh == <<unitsAndStore, winding, kernel>>
vars == <<cfgVars, unitVars, partVars, stage, storeVars, meshVars, winding, kernel, driverVars, lastOp>>

(* ------------------------------------------------------------------ *)
(* Unit system and partition                                            *)
(* ------------------------------------------------------------------ *)
\* constructor: no device buffer is held
NullPointers == [b \in Buffers |-> 0]

InitStoreVars ==
    /\ nDEs = 0
    /\ h_X_DE = <<>>
    /\ h_Y_DE = <<>>
    /\ h_Z_DE = <<>>
    /\ h_XDOT_DE = <<>>
    /\ h_YDOT_DE = <<>>
    /\ h_ZDOT_DE = <<>>
    /\ hostGenerated = FALSE
    /\ ptr = NullPointers
    /\ heap = <<>>
    /\ nullFrees = 0
    /\ setups = 0
    /\ capacityErr = FALSE
    /\ outOfBlock = FALSE

OutputModes == {"NONE", "CSV"}

\* trimesh constructor: both containers allocated, the soup empty, its pointer
\* fields not assigned
PointerFields ==
    {"triangleFamily_ID", "node1", "node2", "node3", "familyMass_SU", "inflated",
     "inflation_radii", "vel", "omega", "generalizedForcesPerFamily"}
FramePointers == {"fam_frame_broad", "fam_frame_narrow"}

InitMeshVars(file_write_mode) ==
    /\ containers = [meshSoup_DEVICE |-> [live |-> TRUE, frees |-> 0],
                     tri_params |-> [live |-> TRUE, frees |-> 0]]
    /\ soup = [f \in PointerFields |-> -1] @@
              [nTrianglesInSoup |-> 0, numTriangleFamilies |-> 0]
    /\ tri_params = [f \in FramePointers |-> -1] @@ [scalars |-> "uninit"]
    /\ mheap = <<>>
    /\ meshErr = [readAfterRelease |-> FALSE, invalidFree |-> FALSE,
                  wildAccess |-> FALSE, fatal |-> FALSE]
    /\ life = "alive"
    /\ loads = 0
    /\ meshCfg = [K_n_s2m_UU |-> 0, K_t_s2m_UU |-> 0, Gamma_n_s2m_UU |-> 0,
                  Gamma_t_s2m_UU |-> 0, rolling_coeff_s2m_UU |-> 0,
                  adhesion_s2m_over_gravity |-> 0,
                  rolling_mode |-> "NO_RESISTANCE", file_write_mode |-> file_write_mode,
                  mesh_collision_enabled |-> TRUE, BC_active |-> <<>>]
    /\ contact = [mesh |-> FALSE, BCs |-> {}]
    /\ SU2UU = "uninit"
    /\ triSD = "uninit"
    /\ initialized = 0
    /\ steps = 0
    /\ genForcesOnSoup = [written |-> FALSE, defined |-> FALSE, data |-> <<>>]
    /\ meshFile = [written |-> FALSE, defined |-> FALSE, points |-> <<>>]

\* no triangle is being stored
IdleWinding ==
    [tri |-> Tri(Vec(0, 0, 0), Vec(0, 0, 0), Vec(0, 0, 0)), normal |-> Vec(0, 0, 0),
     stored |-> FALSE, nodes |-> <<>>]

\* the step engine is not being followed
IdleKernel ==
    [X |-> <<>>, XDOT |-> <<>>, XDOT_update |-> <<>>,
     SD_NumOf_DEs_Touching |-> <<>>, DEs_in_SD_composite |-> <<>>,
     phase |-> "none", launched |-> {}, work |-> {}, done |-> {}, total |-> <<>>,
     stepsDone |-> 0]

\* no demo program is running
InitNoDriver ==
    /\ demo = "none"
    /\ pc = [phase |-> "done", at |-> 0, iter |-> 0, end |-> 0, switch_at |-> 0]
    /\ engine = [calls |-> {}, late |-> {}, earlyAdvance |-> FALSE, hostSteps |-> 0,
                 plane_bc_id |-> -1, body_forces |-> <<>>]
    /\ coupling = [pushed |-> FALSE, pulled |-> FALSE]

InitUnset ==
    /\ MASS_UNIT = "uninit"
    /\ K_stiffness = "uninit"
    /\ TIME_UNIT = "uninit"
    /\ LENGTH_UNIT = "uninit"
    /\ monoDisperseSphRadius_SU = "uninit"
    /\ reciprocal_sphDiam_SU = "uninit"
    /\ gravAcc_factor_SU = "uninit"
    /\ SD_SU = "uninit"
    /\ nSDs_SU = "uninit"
    /\ nSDs = "uninit"
    /\ BD_frame = "uninit"
    /\ BD_frame_dot = "uninit"

InitUnits ==
    /\ sphere_radius \in Radii
    /\ sphere_density \in Densities
    /\ box = "uninit"
    /\ accGrav = "uninit"
    /\ modulusYoung_SPH2SPH = "uninit"
    /\ modulusYoung_SPH2WALL = "uninit"
    /\ PSI \in PsiFactors
    /\ AVERAGE_SPHERES_PER_SD \in AvgTargets
    /\ InitUnset
    /\ stage = "setBOXdims"
    /\ InitStoreVars
    /\ InitMeshVars("CSV")
    /\ winding = IdleWinding
    /\ kernel = IdleKernel
    /\ InitNoDriver
    /\ lastOp = "construct"

setBOXdims(L, D, H) ==
    /\ stage = "setBOXdims"
    /\ stage' = "set_K_n_SPH2SPH"
    /\ box' = [a \in Axes |-> IF a = "L" THEN L ELSE IF a = "D" THEN D ELSE H]
    /\ UNCHANGED <<sphere_radius, sphere_density, accGrav, modulusYoung_SPH2SPH,
                   modulusYoung_SPH2WALL, PSI, AVERAGE_SPHERES_PER_SD>>
    /\ UNCHANGED <<unitVars, partVars, storeVars, beyondStore>>
    /\ lastOp' = "setBOXdims"

set_K_n_SPH2SPH(k) ==
    /\ stage = "set_K_n_SPH2SPH"
    /\ stage' = "set_K_n_SPH2WALL"
    /\ modulusYoung_SPH2SPH' = k
    /\ UNCHANGED <<sphere_radius, sphere_density, box, accGrav,
                   modulusYoung_SPH2WALL, PSI, AVERAGE_SPHERES_PER_SD>>
    /\ UNCHANGED <<unitVars, partVars, storeVars, beyondStore>>
    /\ lastOp' = "set_K_n_SPH2SPH"

set_K_n_SPH2WALL(k) ==
    /\ stage = "set_K_n_SPH2WALL"
    /\ stage' = "set_gravitational_acceleration"
    /\ modulusYoung_SPH2WALL' = k
    /\ UNCHANGED <<sphere_radius, sphere_density, box, accGrav,
                   modulusYoung_SPH2SPH, PSI, AVERAGE_SPHERES_PER_SD>>
    /\ UNCHANGED <<unitVars, partVars, storeVars, beyondStore>>
    /\ lastOp' = "set_K_n_SPH2WALL"

set_gravitational_acceleration(x, y, z) ==
    /\ stage = "set_gravitational_acceleration"
    /\ stage' = "switch_to_SimUnits"
    /\ accGrav' = [X |-> x, Y |-> y, Z |-> z]
    /\ UNCHANGED <<sphere_radius, sphere_density, box, modulusYoung_SPH2SPH,
                   modulusYoung_SPH2WALL, PSI, AVERAGE_SPHERES_PER_SD>>
    /\ UNCHANGED <<unitVars, partVars, storeVars, beyondStore>>
    /\ lastOp' = "set_gravitational_acceleration"

\* std::max(a, b)
StdMax(a, b) == IF a < b THEN b ELSE a

\* set_K_n_SPH2MESH on a system with meshes, once the sphere moduli are set
set_K_n_SPH2MESH(k) ==
    /\ stage = "set_gravitational_acceleration"
    /\ meshCfg.K_n_s2m_UU = 0
    /\ meshCfg' = [meshCfg EXCEPT !.K_n_s2m_UU = k]
    /\ lastOp' = "set_K_n_SPH2MESH"
    /\ UNCHANGED <<soupVars, contact, SU2UU, triSD, initialized, steps, genForcesOnSoup,
                   meshFile>>
    /\ UNCHANGED <<unitsAndStore, winding, kernel>>

\* a maximum taken over the two sphere moduli only
get_max_K_SpheresOnly == StdMax(modulusYoung_SPH2SPH, modulusYoung_SPH2WALL)

\* get_max_K(): std::max(std::max(K_n_s2s_UU, K_n_s2w_UU), K_n_s2m_UU)
get_max_K ==
    StdMax(StdMax(modulusYoung_SPH2SPH, modulusYoung_SPH2WALL), meshCfg.K_n_s2m_UU)

\* massSphere = 4/3 * pi * r^3 * density
massSphere(r, rho) == Rat(4 * PiNum * r * r * r * rho, 3 * PiDen)

\* K_stiffness = (SPH2SPH > SPH2WALL ? SPH2SPH : SPH2WALL)
MaxModulus(s2s, s2w) == IF s2s > s2w THEN s2s ELSE s2w

\* magGravAcc = sqrt(X^2 + Y^2 + Z^2)
magGravAcc(g) == ISqrt(g.X * g.X + g.Y * g.Y + g.Z * g.Z)

\* LENGTH_UNIT = massSphere * magGravAcc / (PSI_L * K_stiffness)
LengthUnit(m, mag, psiL, K) == Rat(m.n * mag, m.d * psiL * K)

switch_to_SimUnits ==
    /\ stage = "switch_to_SimUnits"
    /\ LET m == massSphere(sphere_radius, sphere_density)
           K == MaxModulus(modulusYoung_SPH2SPH, modulusYoung_SPH2WALL)
           mag == magGravAcc(accGrav)
           LU == LengthUnit(m, mag, PSI.L, K)
           rSU == FDiv(Rat(sphere_radius, 1), LU)
           scalingFactor == Rat(PSI.L, PSI.T * PSI.T * PSI.h)
           gfac(c) == FDiv(Rat(scalingFactor.n * c, scalingFactor.d), Rat(mag, 1))
       IN /\ MASS_UNIT' = m
          /\ K_stiffness' = K
          \* TIME_UNIT = sqrt(massSphere / (PSI_h * K)) / PSI_T, kept as its radicand
          /\ TIME_UNIT' = [sqrtOf |-> Rat(m.n, m.d * PSI.h * K * PSI.T * PSI.T)]
          /\ LENGTH_UNIT' = LU
          /\ monoDisperseSphRadius_SU' = rSU
          /\ reciprocal_sphDiam_SU' =
                IF ~IsFinite(rSU) THEN Rat(0, 1) ELSE FDiv(Rat(1, 1), Rat(2 * rSU.n, rSU.d))
          /\ gravAcc_factor_SU' =
                [X |-> gfac(accGrav.X), Y |-> gfac(accGrav.Y), Z |-> gfac(accGrav.Z)]
    /\ stage' = "units"
    /\ lastOp' = "switch_to_SimUnits"
    /\ UNCHANGED <<cfgVars, partVars, storeVars, beyondStore>>

\* howMany = (unsigned int) ceil(axisExtent / (2 * r * avg)); if (howMany & 1) howMany++
HowMany(axisExtent, r, avg) ==
    LET tempDIM == 2 * r * avg
        h == CeilDiv(axisExtent, tempDIM)
    IN IF h % 2 = 1 THEN h + 1 ELSE h

\* SD_x_SU = (unsigned int) ceil((axisExtent / howMany) / LENGTH_UNIT).  With
\* LENGTH_UNIT = 0 the quotient is +inf and its conversion to unsigned int is
\* undefined: undef is the value the build gives it.
SDSize(axisExtent, howMany, LU, undef) ==
    IF LU.n = 0
    THEN undef
    ELSE CeilDiv(axisExtent * LU.d, howMany * LU.n)

\* a frame placed a whole grid extent below the origin
FrameOffset_WholeExtent(count, size) == Rat(-(count * size), 1)

\* BD_frame_X = -.5 * (nSDs_L_SU * SD_L_SU)
FrameOffset(count, size) == Rat(-(count * size), 2)

\* the assignments of partition_BD
PartitionEffect(undef) ==
    LET hm == [a \in Axes |-> HowMany(box[a], sphere_radius, AVERAGE_SPHERES_PER_SD[a])]
        sd == [a \in Axes |-> SDSize(box[a], hm[a], LENGTH_UNIT, undef)]
    IN /\ SD_SU' = sd
       /\ nSDs_SU' = hm
       /\ nSDs' = hm["L"] * hm["D"] * hm["H"]
       /\ BD_frame' = [X |-> FrameOffset(hm["L"], sd["L"]),
                       Y |-> FrameOffset(hm["D"], sd["D"]),
                       Z |-> FrameOffset(hm["H"], sd["H"])]
       /\ BD_frame_dot' = [X |-> 0, Y |-> 0, Z |-> 0]

partition_BD(undef) ==
    /\ stage \in {"units", "partitioned"}
    /\ PartitionEffect(undef)
    /\ stage' = "partitioned"
    /\ lastOp' = "partition_BD"
    /\ UNCHANGED <<cfgVars, unitVars, storeVars, beyondStore>>

NextUnits ==
    \/ \E L \in BoxExtents, D \in BoxExtents, H \in BoxExtents :
          setBOXdims(L, D, H) /\ UNCHANGED driverVars
    \/ \E k \in Moduli : set_K_n_SPH2SPH(k) /\ UNCHANGED driverVars
    \/ \E k \in Moduli : set_K_n_SPH2WALL(k) /\ UNCHANGED driverVars
    \/ \E g \in GravMagnitudes :
          set_gravitational_acceleration(0, 0, -g) /\ UNCHANGED driverVars
    \/ switch_to_SimUnits /\ UNCHANGED driverVars
    \/ \E undef \in UndefinedUInt : partition_BD(undef) /\ UNCHANGED driverVars

SpecUnits == InitUnits /\ [][NextUnits]_vars

\* the configuration of a system with meshes up to the derivation of its units
NextModuli ==
    \/ setBOXdims(MaxBox, MaxBox, MaxBox) /\ UNCHANGED driverVars
    \/ \E k \in Moduli : set_K_n_SPH2SPH(k) /\ UNCHANGED driverVars
    \/ \E k \in Moduli : set_K_n_SPH2WALL(k) /\ UNCHANGED driverVars
    \/ \E k \in Moduli : set_K_n_SPH2MESH(k) /\ UNCHANGED driverVars
    \/ \E g \in GravMagnitudes :
          set_gravitational_acceleration(0, 0, -g) /\ UNCHANGED driverVars
    \/ switch_to_SimUnits /\ UNCHANGED driverVars

SpecModuli == InitUnits /\ [][NextModuli]_vars

(* ------------------------------------------------------------------ *)
(* Particle store: host arrays and device buffers                       *)
(* ------------------------------------------------------------------ *)
Zeros(n) == [i \in 1..n |-> 0]

\* generate_DEs: the sampler's points, truncated to int, become the host arrays
generate_DEs(points) ==
    /\ stage = "units"
    /\ ~hostGenerated
    /\ nDEs' = Len(points)
    /\ h_X_DE' = [i \in 1..Len(points) |-> points[i].x]
    /\ h_Y_DE' = [i \in 1..Len(points) |-> points[i].y]
    /\ h_Z_DE' = [i \in 1..Len(points) |-> points[i].z]
    /\ h_XDOT_DE' = Zeros(Len(points))
    /\ h_YDOT_DE' = Zeros(Len(points))
    /\ h_ZDOT_DE' = Zeros(Len(points))
    /\ hostGenerated' = TRUE
    /\ lastOp' = "generate_DEs"
    /\ UNCHANGED <<cfgVars, unitVars, partVars, stage, devVars, sdVars, beyondStore>>

\* one cudaMalloc'ed block: its data is defined (init) after a memcpy or memset
Block(size, init, data) ==
    [live |-> TRUE, frees |-> 0, size |-> size, init |-> init, data |-> data]

\* the cudaMalloc calls of setup_simulation, in order
SetupOrder ==
    << "p_d_CM_X", "p_d_CM_Y", "p_d_CM_Z",
       "p_d_CM_XDOT", "p_d_CM_YDOT", "p_d_CM_ZDOT",
       "p_d_CM_XDOT_update", "p_d_CM_YDOT_update", "p_d_CM_ZDOT_update",
       "p_device_SD_NumOf_DEs_Touching", "p_device_DEs_in_SD_composite" >>

\* a set-up whose membership list has one entry per SD only
SetupBlock_Uncapped(b, n, nsd) ==
    CASE b = "p_d_CM_X" -> Block(n, TRUE, h_X_DE)
      [] b = "p_d_CM_Y" -> Block(n, TRUE, h_Y_DE)
      [] b = "p_d_CM_Z" -> Block(n, TRUE, h_Z_DE)
      [] b \in VelocityBuffers \cup UpdateBuffers -> Block(n, TRUE, Zeros(n))
      [] b = "p_device_SD_NumOf_DEs_Touching" -> Block(nsd, FALSE, <<>>)
      [] b = "p_device_DEs_in_SD_composite" -> Block(nsd, FALSE, <<>>)

\* a set-up that does not clear the pending velocity updates
SetupBlock_UpdatesNotCleared(b, n, nsd) ==
    CASE b = "p_d_CM_X" -> Block(n, TRUE, h_X_DE)
      [] b = "p_d_CM_Y" -> Block(n, TRUE, h_Y_DE)
      [] b = "p_d_CM_Z" -> Block(n, TRUE, h_Z_DE)
      [] b \in VelocityBuffers -> Block(n, TRUE, Zeros(n))
      [] b \in UpdateBuffers -> Block(n, FALSE, <<>>)
      [] b = "p_device_SD_NumOf_DEs_Touching" -> Block(nsd, FALSE, <<>>)
      [] b = "p_device_DEs_in_SD_composite" ->
            Block(MAX_COUNT_OF_DEs_PER_SD * nsd, FALSE, <<>>)

\* the block setup_simulation leaves behind pointer b
SetupBlock(b, n, nsd) ==
    CASE b = "p_d_CM_X" -> Block(n, TRUE, h_X_DE)
      [] b = "p_d_CM_Y" -> Block(n, TRUE, h_Y_DE)
      [] b = "p_d_CM_Z" -> Block(n, TRUE, h_Z_DE)
      [] b \in VelocityBuffers \cup UpdateBuffers -> Block(n, TRUE, Zeros(n))
      [] b = "p_device_SD_NumOf_DEs_Touching" -> Block(nsd, FALSE, <<>>)
      [] b = "p_device_DEs_in_SD_composite" ->
            Block(MAX_COUNT_OF_DEs_PER_SD * nsd, FALSE, <<>>)

IndexIn(seq, e) == CHOOSE i \in 1..Len(seq) : seq[i] = e

\* a set-up that allocates without partitioning first
setup_simulation_StalePartition(undef) ==
    /\ ~capacityErr
    /\ stage = "partitioned"
    /\ hostGenerated
    /\ setups < MaxSetups
    /\ heap' = heap \o [i \in 1..Len(SetupOrder) |-> SetupBlock(SetupOrder[i], nDEs, nSDs)]
    /\ ptr' = [b \in Buffers |-> Len(heap) + IndexIn(SetupOrder, b)]
    /\ setups' = setups + 1
    /\ lastOp' = "setup_simulation"
    /\ UNCHANGED <<cfgVars, unitVars, partVars, stage, hostVars, nullFrees, sdVars, beyondStore>>

setup_simulation(undef) ==
    /\ ~capacityErr
    /\ stage \in {"units", "partitioned"}
    /\ hostGenerated
    /\ setups < MaxSetups
    /\ PartitionEffect(undef)
    /\ heap' = heap \o [i \in 1..Len(SetupOrder) |-> SetupBlock(SetupOrder[i], nDEs, nSDs')]
    /\ ptr' = [b \in Buffers |-> Len(heap) + IndexIn(SetupOrder, b)]
    /\ setups' = setups + 1
    /\ stage' = "partitioned"
    /\ lastOp' = "setup_simulation"
    /\ UNCHANGED <<cfgVars, unitVars, hostVars, nullFrees, sdVars, beyondStore>>

\* the buffers cleanup_simulation handles
CleanupFreed == PositionBuffers \cup VelocityBuffers \cup SDBuffers

\* a cleanup that frees without testing the pointer
GuardedFree_Unchecked(p) == TRUE

\* if (p != nullptr): whether cudaFree is called on pointer p
GuardedFree(p) == p # 0

\* p = nullptr after the cudaFree
PointerAfterFree(p) == 0

\* cudaFree of every pointer in ps (a set of non-null pointers, one per call)
FreedHeap(h, calls) ==
    [i \in 1..Len(h) |->
        LET k == Cardinality({b \in DOMAIN calls : calls[b] = i})
        IN IF k = 0 THEN h[i]
           ELSE [h[i] EXCEPT !.live = FALSE, !.frees = h[i].frees + k]]

cleanup_simulation ==
    /\ ~capacityErr
    /\ LET called == {b \in CleanupFreed : GuardedFree(ptr[b])}
           calls == [b \in called |-> ptr[b]]
       IN /\ heap' = FreedHeap(heap, calls)
          /\ nullFrees' = nullFrees + Cardinality({b \in called : ptr[b] = 0})
          /\ ptr' = [b \in Buffers |-> IF b \in called THEN PointerAfterFree(ptr[b]) ELSE ptr[b]]
    /\ lastOp' = "cleanup_simulation"
    /\ UNCHANGED <<cfgVars, unitVars, partVars, stage, hostVars, setups, sdVars, beyondStore>>

\* the SDs along one axis that the sphere's extent [p - r, p + r] meets; SD k
\* spans [frame + k * size, frame + (k + 1) * size]
AxisRange(p, r, frame, size, count) ==
    IF ~IsFinite(r) THEN 0..(count - 1)
    ELSE {k \in 0..(count - 1) :
            /\ RatLeq(RatAdd(frame, Rat(k * size, 1)), RatAdd(Rat(p, 1), r))
            /\ RatLeq(RatAdd(Rat(p, 1), Rat(-r.n, r.d)), RatAdd(frame, Rat((k + 1) * size, 1)))}

\* the index of SD (i, j, k) in the per-SD arrays
SDIndex(i, j, k) == (i * nSDs_SU["D"] + j) * nSDs_SU["H"] + k

\* the SDs sphere s touches
TouchedSDs(s) ==
    LET X == heap[ptr["p_d_CM_X"]].data
        Y == heap[ptr["p_d_CM_Y"]].data
        Z == heap[ptr["p_d_CM_Z"]].data
        r == monoDisperseSphRadius_SU
    IN {SDIndex(i, j, k) :
            i \in AxisRange(X[s], r, BD_frame.X, SD_SU["L"], nSDs_SU["L"]),
            j \in AxisRange(Y[s], r, BD_frame.Y, SD_SU["D"], nSDs_SU["D"]),
            k \in AxisRange(Z[s], r, BD_frame.Z, SD_SU["H"], nSDs_SU["H"])}

\* the entry of the composite list that holds slot number slot of SD sd
CompositeIndex(sd, slot) == sd * MAX_COUNT_OF_DEs_PER_SD + slot

\* the member of S with exactly n members of S below it
NthMember(S, n) == CHOOSE s \in S : Cardinality({t \in S : t < s}) = n

\* the broad phase of one step: the touch counts and the membership list are
\* rebuilt, each sphere taking the next free slot of every SD it touches; a
\* sphere that finds its SD full ends the run
broad_phase ==
    /\ stage = "partitioned"
    /\ ~capacityErr
    /\ \A b \in PositionBuffers \cup SDBuffers : ptr[b] # 0
    /\ \E touched \in {[s \in 1..nDEs |-> TouchedSDs(s)]} :
       \E members \in {[sd \in 0..(nSDs - 1) |-> {s \in 1..nDEs : sd \in touched[s]}]} :
       \E counts \in {[sd \in 0..(nSDs - 1) |-> Cardinality(members[sd])]} :
       LET full == \E sd \in 0..(nSDs - 1) : counts[sd] > MAX_COUNT_OF_DEs_PER_SD
           size == heap[ptr["p_device_DEs_in_SD_composite"]].size
           entry(i) ==
                LET sd == i \div MAX_COUNT_OF_DEs_PER_SD
                    slot == i % MAX_COUNT_OF_DEs_PER_SD
                IN IF sd < nSDs /\ slot < counts[sd] THEN NthMember(members[sd], slot) ELSE 0
       IN IF full
          THEN /\ capacityErr' = TRUE
               /\ UNCHANGED <<heap, outOfBlock>>
          ELSE /\ heap' = [heap EXCEPT
                            ![ptr["p_device_SD_NumOf_DEs_Touching"]] =
                                [@ EXCEPT !.init = TRUE,
                                          !.data = [i \in 1..nSDs |-> counts[i - 1]]],
                            ![ptr["p_device_DEs_in_SD_composite"]] =
                                [@ EXCEPT !.init = TRUE,
                                          !.data = [i \in 1..size |-> entry(i - 1)]]]
               /\ outOfBlock' =
                    (outOfBlock \/ \E sd \in 0..(nSDs - 1) :
                                    /\ counts[sd] > 0
                                    /\ CompositeIndex(sd, counts[sd] - 1) >= size)
               /\ UNCHANGED capacityErr
    /\ lastOp' = "broad_phase"
    /\ UNCHANGED <<cfgVars, unitVars, partVars, stage, hostVars, ptr, nullFrees, setups,
                   beyondStore>>

InitStore ==
    /\ sphere_radius \in Radii
    /\ sphere_density \in Densities
    /\ box \in {[a \in Axes |-> e] : e \in BoxExtents}
    /\ accGrav \in {[X |-> 0, Y |-> 0, Z |-> -g] : g \in GravMagnitudes}
    /\ modulusYoung_SPH2SPH = 1
    /\ modulusYoung_SPH2WALL = 1
    /\ PSI \in PsiFactors
    /\ AVERAGE_SPHERES_PER_SD \in AvgTargets
    /\ InitUnset
    /\ stage = "switch_to_SimUnits"
    /\ InitStoreVars
    /\ InitMeshVars("CSV")
    /\ winding = IdleWinding
    /\ kernel = IdleKernel
    /\ InitNoDriver
    /\ lastOp = "set_gravitational_acceleration"

NextStore ==
    \/ switch_to_SimUnits /\ UNCHANGED driverVars
    \/ \E points \in SampledClouds : generate_DEs(points) /\ UNCHANGED driverVars
    \/ \E undef \in UndefinedUInt : setup_simulation(undef) /\ UNCHANGED driverVars
    \/ cleanup_simulation /\ UNCHANGED driverVars
    \/ broad_phase /\ UNCHANGED driverVars

SpecStore == InitStore /\ [][NextStore]_vars

(* ------------------------------------------------------------------ *)
(* Partition of a box whose extents are set again                       *)
(* ------------------------------------------------------------------ *)
\* setBOXdims on a system whose unit system is already derived
setBOXdims_again(L, D, H) ==
    /\ stage \in {"units", "partitioned"}
    /\ box' = [a \in Axes |-> IF a = "L" THEN L ELSE IF a = "D" THEN D ELSE H]
    /\ box' # box
    /\ lastOp' = "setBOXdims"
    /\ UNCHANGED <<sphere_radius, sphere_density, accGrav, modulusYoung_SPH2SPH,
                   modulusYoung_SPH2WALL, PSI, AVERAGE_SPHERES_PER_SD>>
    /\ UNCHANGED <<unitVars, partVars, stage, storeVars, beyondStore>>

InitRepartition ==
    /\ sphere_radius \in Radii
    /\ sphere_density \in Densities
    /\ box \in {[a \in Axes |-> e] : e \in BoxExtents}
    /\ accGrav \in {[X |-> 0, Y |-> 0, Z |-> -g] : g \in GravMagnitudes}
    /\ modulusYoung_SPH2SPH = 1
    /\ modulusYoung_SPH2WALL = 1
    /\ PSI = [T |-> 1, h |-> 1, L |-> 1]
    /\ AVERAGE_SPHERES_PER_SD \in AvgTargets
    /\ InitUnset
    /\ stage = "switch_to_SimUnits"
    /\ InitStoreVars
    /\ InitMeshVars("CSV")
    /\ winding = IdleWinding
    /\ kernel = IdleKernel
    /\ InitNoDriver
    /\ lastOp = "set_gravitational_acceleration"

NextRepartition ==
    \/ switch_to_SimUnits /\ UNCHANGED driverVars
    \/ \E e \in BoxExtents : setBOXdims_again(e, e, e) /\ UNCHANGED driverVars
    \/ \E undef \in UndefinedUInt : partition_BD(undef) /\ UNCHANGED driverVars
    \/ generate_DEs(<<Pt(0, 0, 0)>>) /\ UNCHANGED driverVars
    \/ \E undef \in UndefinedUInt :
          setups = 0 /\ setup_simulation(undef) /\ UNCHANGED driverVars

SpecRepartition == InitRepartition /\ [][NextRepartition]_vars

(* ------------------------------------------------------------------ *)
(* Triangle soup                                                        *)
(* ------------------------------------------------------------------ *)

\* the obj files of the data directory: triangles and, per triangle, the stored
\* normal of its first vertex
MeshFiles == <<"two.obj", "cw.obj", "empty.obj", "ccw.obj">>
WavefrontMesh(file) ==
    CASE file = "empty.obj" -> [tris |-> <<>>, normals |-> <<>>]
      [] file = "ccw.obj" ->
            [tris |-> <<Tri(Vec(0, 0, 0), Vec(1, 0, 0), Vec(0, 1, 0))>>,
             normals |-> <<Vec(0, 0, 1)>>]
      [] file = "cw.obj" ->
            [tris |-> <<Tri(Vec(0, 0, 0), Vec(0, 1, 0), Vec(1, 0, 0))>>,
             normals |-> <<Vec(0, 0, 1)>>]
      [] file = "two.obj" ->
            [tris |-> <<Tri(Vec(0, 0, 1), Vec(1, 0, 1), Vec(0, 1, 1)),
                        Tri(Vec(0, 0, 0), Vec(1, 0, 0), Vec(0, 0, 1))>>,
             normals |-> <<Vec(0, 0, 1), Vec(0, 1, 0)>>]

\* mesh.LoadWavefrontMesh(file); mesh.Transform({0,0,0}, diag(scaling))
LoadedMesh(file, sc) ==
    LET m == WavefrontMesh(file)
    IN [tris |-> [i \in 1..Len(m.tris) |->
                    Tri(VScale(sc, m.tris[i].p1), VScale(sc, m.tris[i].p2),
                        VScale(sc, m.tris[i].p3))],
        normals |-> [i \in 1..Len(m.normals) |-> VScale(sc, m.normals[i])]]

\* a winding test that never asks for the swap
NeedsSwap_Never(tri, normal) == FALSE

\* if (cross.Dot(normal) < 0): the RHR normal of (p1, p2, p3) opposes the stored one
NeedsSwap(tri, normal) ==
    VDot(VCross(VSub(tri.p2, tri.p1), VSub(tri.p3, tri.p1)), normal) < 0

\* the nodes stored for one triangle: std::swap(node2, node3) when NeedsSwap
StoredNodes(tri, normal) ==
    IF NeedsSwap(tri, normal)
    THEN [node1 |-> tri.p1, node2 |-> tri.p3, node3 |-> tri.p2]
    ELSE [node1 |-> tri.p1, node2 |-> tri.p2, node3 |-> tri.p3]

\* a family counter that is never advanced
FamilyOf_Shared(k) == 0

\* the family written for the triangles of the k-th mesh (k from 1)
FamilyOf(k) == k - 1

\* the loops of setupTriMesh_DEVICE over all meshes: one entry per triangle
RECURSIVE SoupEntries(_, _)
SoupEntries(meshes, k) ==
    IF k > Len(meshes) THEN <<>>
    ELSE [i \in 1..Len(meshes[k].tris) |->
            [nodes |-> StoredNodes(meshes[k].tris[i], meshes[k].normals[i]),
             family |-> FamilyOf(k)]]
         \o SoupEntries(meshes, k + 1)

\* nTriangles += mesh.getNumTriangles()
RECURSIVE CountTriangles(_, _)
CountTriangles(meshes, k) ==
    IF k > Len(meshes) THEN 0
    ELSE Len(meshes[k].tris) + CountTriangles(meshes, k + 1)

\* a length test that forgets the last vector
SizesMismatch_NoRadii(in) ==
    LET size == Len(in.objfilenames)
    IN \/ size # Len(in.scalings)
       \/ size # Len(in.masses)
       \/ size # Len(in.inflated)

\* size != scalings.size() || size != masses.size() || ...
SizesMismatch(in) ==
    LET size == Len(in.objfilenames)
    IN \/ size # Len(in.scalings)
       \/ size # Len(in.masses)
       \/ size # Len(in.inflated)
       \/ size # Len(in.inflation_radii)

\* setupTriMesh_DEVICE: the soup and its blocks after the call
SetupTriMesh(meshes, nTriangles, masses, inflated, inflation_radii) ==
    LET entries == SoupEntries(meshes, 1)
        family == Len(meshes)
        base == Len(mheap)
        triBlocks ==
            IF nTriangles # 0
            THEN << Block(nTriangles, TRUE, [i \in 1..Len(entries) |-> entries[i].family]),
                    Block(nTriangles, TRUE, [i \in 1..Len(entries) |-> entries[i].nodes.node1]),
                    Block(nTriangles, TRUE, [i \in 1..Len(entries) |-> entries[i].nodes.node2]),
                    Block(nTriangles, TRUE, [i \in 1..Len(entries) |-> entries[i].nodes.node3]) >>
            ELSE <<>>
        famBlocks ==
            IF nTriangles # 0
            THEN << Block(family, TRUE, [i \in 1..family |-> Rat(masses[i], 1)]),
                    Block(family, TRUE, [i \in 1..family |-> inflated[i]]),
                    Block(family, TRUE, [i \in 1..family |-> Rat(inflation_radii[i], 1)]),
                    Block(6 * family, FALSE, <<>>),
                    Block(family, FALSE, <<>>),
                    Block(family, FALSE, <<>>),
                    Block(family, TRUE, [i \in 1..family |-> Vec(0, 0, 0)]),
                    Block(family, TRUE, [i \in 1..family |-> Vec(0, 0, 0)]) >>
            ELSE <<>>
    IN [soup |->
            IF nTriangles # 0
            THEN [soup EXCEPT !.nTrianglesInSoup = nTriangles,
                              !.numTriangleFamilies = family,
                              !.triangleFamily_ID = base + 1,
                              !.node1 = base + 2,
                              !.node2 = base + 3,
                              !.node3 = base + 4,
                              !.familyMass_SU = base + 5,
                              !.inflated = base + 6,
                              !.inflation_radii = base + 7,
                              !.generalizedForcesPerFamily = base + 8,
                              !.vel = base + 11,
                              !.omega = base + 12]
            ELSE [soup EXCEPT !.nTrianglesInSoup = nTriangles,
                              !.numTriangleFamilies = family],
        tri_params |->
            IF nTriangles # 0
            THEN [tri_params EXCEPT !.fam_frame_broad = base + 9,
                                    !.fam_frame_narrow = base + 10]
            ELSE tri_params,
        mheap |-> mheap \o triBlocks \o famBlocks]

\* GRANULAR_ERROR: the message is printed and the process exits
GRANULAR_ERROR == meshErr' = [meshErr EXCEPT !.fatal = TRUE]

MeshUsable == life = "alive" /\ ~meshErr.fatal

load_meshes(in) ==
    /\ MeshUsable
    /\ loads = 0
    /\ IF SizesMismatch(in)
       THEN /\ GRANULAR_ERROR
            /\ UNCHANGED <<containers, soup, tri_params, mheap, life>>
       ELSE LET all_meshes == [i \in 1..Len(in.objfilenames) |->
                                  LoadedMesh(in.objfilenames[i], in.scalings[i])]
                nTriangles == CountTriangles(all_meshes, 1)
                after == SetupTriMesh(all_meshes, nTriangles, in.masses, in.inflated,
                                      in.inflation_radii)
            IN /\ soup' = after.soup
               /\ tri_params' = after.tri_params
               /\ mheap' = after.mheap
               /\ UNCHANGED <<containers, meshErr, life>>
    /\ loads' = loads + 1
    /\ lastOp' = "load_meshes"
    /\ UNCHANGED <<meshRunVars, beyondMesh>>

\* the pointer read from a field of a container: after the container's release
\* the read is undefined; it returns the old value or something else
ReadField(container, value, view) ==
    IF containers[container].live \/ view = "stale" THEN value ELSE -1

\* cudaFree(p) on every field pointer, then on the two containers; nothing is
\* tested and nothing is reset
CleanupTriMesh(view) ==
    LET read == [f \in PointerFields |-> ReadField("meshSoup_DEVICE", soup[f], view)] @@
                [f \in FramePointers |-> ReadField("tri_params", tri_params[f], view)]
    IN /\ mheap' = FreedHeap(mheap, [f \in {g \in DOMAIN read : read[g] > 0} |-> read[f]])
       /\ containers' = [c \in DOMAIN containers |->
                            [live |-> FALSE, frees |-> containers[c].frees + 1]]
       /\ meshErr' = [meshErr EXCEPT
                        !.readAfterRelease = @ \/ ~containers["meshSoup_DEVICE"].live,
                        !.invalidFree = @ \/ \E f \in DOMAIN read : read[f] = -1]
       /\ UNCHANGED <<soup, tri_params, loads>>

cleanupTriMesh_DEVICE(view) ==
    /\ life \in {"alive", "released"}
    /\ ~meshErr.fatal
    /\ containers["meshSoup_DEVICE"].frees < MaxCleanups
    /\ CleanupTriMesh(view)
    /\ life' = "released"
    /\ lastOp' = "cleanupTriMesh_DEVICE"
    /\ UNCHANGED <<meshRunVars, beyondMesh>>

\* ~ChSystemGranular_MonodisperseSMC_trimesh
Destructor(view) ==
    /\ life \in {"alive", "released"}
    /\ ~meshErr.fatal
    /\ CleanupTriMesh(view)
    /\ life' = "destroyed"
    /\ lastOp' = "destructor"
    /\ UNCHANGED <<meshRunVars, beyondMesh>>

\* what initializeSpheres leaves behind for the mesh code: the SU-to-UU scale
\* factors and the number of subdomains
UnitSystems ==
    { [MASS_SU2UU |-> Rat(1, 1), LENGTH_SU2UU |-> Rat(1, 1), TIME_SU2UU |-> Rat(1, 1),
       FORCE_SU2UU |-> Rat(1, 1), TORQUE_SU2UU |-> Rat(1, 1), nSDs |-> 8],
      [MASS_SU2UU |-> Rat(2, 1), LENGTH_SU2UU |-> Rat(3, 1), TIME_SU2UU |-> Rat(2, 1),
       FORCE_SU2UU |-> Rat(3, 2), TORQUE_SU2UU |-> Rat(9, 2), nSDs |-> 8] }

\* a loop over the families dereferences these per-family pointers
FamilyAccessWild(pointers) ==
    soup.numTriangleFamilies > 0 /\ \E q \in pointers : q <= 0

\* initializeTriangles, with the scale factors sys in force
initializeTriangles(sys) ==
    LET K_SU2UU == FDiv(sys.MASS_SU2UU, RatMul(sys.TIME_SU2UU, sys.TIME_SU2UU))
        GAMMA_SU2UU == FDiv(Rat(1, 1), sys.TIME_SU2UU)
        rolling_scalingFactor ==
            IF meshCfg.rolling_mode = "VISCOUS"
            THEN FDiv(Rat(1, 1), sys.TIME_SU2UU) ELSE Rat(1, 1)
        nFam == soup.numTriangleFamilies
        wild == FamilyAccessWild({soup.familyMass_SU, soup.inflation_radii})
    IN /\ tri_params' =
            [tri_params EXCEPT !.scalars =
                [K_n_s2m_SU |-> FDiv(Rat(meshCfg.K_n_s2m_UU, 1), K_SU2UU),
                 K_t_s2m_SU |-> FDiv(Rat(meshCfg.K_t_s2m_UU, 1), K_SU2UU),
                 Gamma_n_s2m_SU |-> FDiv(Rat(meshCfg.Gamma_n_s2m_UU, 1), GAMMA_SU2UU),
                 Gamma_t_s2m_SU |-> FDiv(Rat(meshCfg.Gamma_t_s2m_UU, 1), GAMMA_SU2UU),
                 adhesionAcc_s2m |-> meshCfg.adhesion_s2m_over_gravity * magGravAcc(accGrav),
                 rolling_coeff_s2m_SU |->
                    RatMul(rolling_scalingFactor, Rat(meshCfg.rolling_coeff_s2m_UU, 1))]]
       /\ mheap' =
            IF nFam = 0 \/ wild THEN mheap
            ELSE [i \in 1..Len(mheap) |->
                    IF i = soup.familyMass_SU
                    THEN [mheap[i] EXCEPT !.data =
                            [fam \in 1..nFam |-> FDiv(mheap[i].data[fam], sys.MASS_SU2UU)]]
                    ELSE IF i = soup.inflation_radii
                    THEN [mheap[i] EXCEPT !.data =
                            [fam \in 1..nFam |-> FDiv(mheap[i].data[fam], sys.LENGTH_SU2UU)]]
                    ELSE mheap[i]]
       /\ meshErr' = [meshErr EXCEPT !.wildAccess = @ \/ wild]
       /\ triSD' = [SD_numTrianglesTouching |-> Zeros(sys.nSDs),
                    SD_TriangleCompositeOffsets |-> Zeros(sys.nSDs),
                    triangles_in_SD_composite |-> <<>>]

\* initialize(): initializeSpheres(), then initializeTriangles()
\* initializeSpheres(): the unit system and the partition are derived
initializeSpheres(sys) ==
    /\ initialized > 0 => sys = SU2UU
    /\ SU2UU' = sys
    /\ nSDs' = sys.nSDs
    /\ initialized' = initialized + 1

\* ChSystemGranular_MonodisperseSMC::initialize(), the system without meshes
initialize_MonodisperseSMC(sys) ==
    /\ MeshUsable
    /\ initialized < MaxInits
    /\ initializeSpheres(sys)
    /\ lastOp' = "initialize"
    /\ UNCHANGED <<soupVars, meshCfg, contact, triSD, steps, genForcesOnSoup, meshFile>>
    /\ UNCHANGED <<cfgVars, unitVars, SD_SU, nSDs_SU, BD_frame, BD_frame_dot, stage, storeVars,
                   winding, kernel>>

initialize(sys) ==
    /\ MeshUsable
    /\ initialized < MaxInits
    /\ initializeSpheres(sys)
    /\ initializeTriangles(sys)
    /\ lastOp' = "initialize"
    /\ UNCHANGED <<containers, soup, life, loads, meshCfg, contact, steps, genForcesOnSoup,
                   meshFile>>
    /\ UNCHANGED <<cfgVars, unitVars, SD_SU, nSDs_SU, BD_frame, BD_frame_dot, stage, storeVars,
                   winding, kernel>>

\* generate_rot_matrix(ep, rot_mat); 2 * (a - 0.5) is 2 * a - 1
generate_rot_matrix(ep) ==
    << 2 * (ep[1] * ep[1] + ep[2] * ep[2]) - 1,
       2 * (ep[2] * ep[3] - ep[1] * ep[4]),
       2 * (ep[2] * ep[4] + ep[1] * ep[3]),
       2 * (ep[2] * ep[3] + ep[1] * ep[4]),
       2 * (ep[1] * ep[1] + ep[3] * ep[3]) - 1,
       2 * (ep[3] * ep[4] - ep[1] * ep[2]),
       2 * (ep[2] * ep[4] - ep[1] * ep[3]),
       2 * (ep[3] * ep[4] + ep[1] * ep[2]),
       2 * (ep[1] * ep[1] + ep[4] * ep[4]) - 1 >>

\* the family frame built from position_orientation_data + 7 * fam
FamilyFrame(position_orientation_data, fam) ==
    [pos |-> << position_orientation_data[7 * fam + 0 + 1],
                position_orientation_data[7 * fam + 1 + 1],
                position_orientation_data[7 * fam + 2 + 1] >>,
     rot_mat |-> generate_rot_matrix([k \in 1..4 |->
                                        position_orientation_data[7 * fam + 3 + k]])]

\* C * vel[6 * fam + off + 0..2]
ScaledVel(C, vel, fam, off) ==
    Vec(RatMul(C, Rat(vel[6 * fam + off + 0 + 1], 1)),
        RatMul(C, Rat(vel[6 * fam + off + 1 + 1], 1)),
        RatMul(C, Rat(vel[6 * fam + off + 2 + 1], 1)))

meshSoup_applyRigidBodyMotion(position_orientation_data, vel) ==
    /\ MeshUsable
    /\ initialized > 0
    /\ LET nFam == soup.numTriangleFamilies
           wild == FamilyAccessWild({tri_params.fam_frame_broad, tri_params.fam_frame_narrow,
                                     soup.vel, soup.omega})
           frames == [fam \in 1..nFam |-> FamilyFrame(position_orientation_data, fam - 1)]
           C_V == FDiv(SU2UU.TIME_SU2UU, SU2UU.LENGTH_SU2UU)
           C_O == SU2UU.TIME_SU2UU
       IN /\ mheap' =
                IF nFam = 0 \/ wild THEN mheap
                ELSE [i \in 1..Len(mheap) |->
                        IF i \in {tri_params.fam_frame_broad, tri_params.fam_frame_narrow}
                        THEN [mheap[i] EXCEPT !.init = TRUE, !.data = frames]
                        ELSE IF i = soup.vel
                        THEN [mheap[i] EXCEPT !.data =
                                [fam \in 1..nFam |-> ScaledVel(C_V, vel, fam - 1, 0)]]
                        ELSE IF i = soup.omega
                        THEN [mheap[i] EXCEPT !.data =
                                [fam \in 1..nFam |-> ScaledVel(C_O, vel, fam - 1, 3)]]
                        ELSE mheap[i]]
          /\ meshErr' = [meshErr EXCEPT !.wildAccess = @ \/ wild]
    /\ lastOp' = "meshSoup_applyRigidBodyMotion"
    /\ UNCHANGED <<containers, soup, tri_params, life, loads, meshRunVars, beyondMesh>>

\* the handles of the boundary conditions that are active
ActiveBCs == {h \in 0..(Len(meshCfg.BC_active) - 1) : meshCfg.BC_active[h + 1]}

\* advance_simulation, as far as the soup sees it: with mesh collision enabled
\* the step engine leaves the forces of this interval in the per-family
\* accumulator, with mesh collision disabled it evaluates no sphere-triangle
\* contact; the active boundary conditions give their forces
advance_simulation(forces) ==
    /\ MeshUsable
    /\ initialized > 0
    /\ steps < MaxSteps
    /\ LET nFam == soup.numTriangleFamilies
           wild == FamilyAccessWild({soup.generalizedForcesPerFamily})
       IN IF meshCfg.mesh_collision_enabled
          THEN /\ mheap' =
                    IF nFam = 0 \/ wild THEN mheap
                    ELSE [mheap EXCEPT ![soup.generalizedForcesPerFamily] =
                            [@ EXCEPT !.init = TRUE, !.data = forces]]
               /\ meshErr' = [meshErr EXCEPT !.wildAccess = @ \/ wild]
          ELSE UNCHANGED <<mheap, meshErr>>
    /\ contact' = [mesh |-> meshCfg.mesh_collision_enabled, BCs |-> ActiveBCs]
    /\ steps' = steps + 1
    /\ lastOp' = "advance_simulation"
    /\ UNCHANGED <<containers, soup, tri_params, life, loads, meshCfg, SU2UU, triSD,
                   initialized, genForcesOnSoup, meshFile, beyondMesh>>

\* a collect that scales all six components by the force factor
CollectedForces_ForceFactorOnly(buffer, nFam) ==
    [j \in 1..(6 * nFam) |-> RatMul(Rat(buffer[j], 1), SU2UU.FORCE_SU2UU)]

\* genForcesOnSoup[i + c] = generalizedForcesPerFamily[i + c] * FORCE_SU2UU (c < 3)
\* or * TORQUE_SU2UU (c >= 3)
CollectedForces(buffer, nFam) ==
    [j \in 1..(6 * nFam) |->
        RatMul(Rat(buffer[j], 1),
               IF (j - 1) % 6 < 3 THEN SU2UU.FORCE_SU2UU ELSE SU2UU.TORQUE_SU2UU)]

collectGeneralizedForcesOnMeshSoup ==
    /\ MeshUsable
    /\ initialized > 0
    /\ LET nFam == soup.numTriangleFamilies
           wild == FamilyAccessWild({soup.generalizedForcesPerFamily})
           defined == nFam = 0 \/ (~wild /\ mheap[soup.generalizedForcesPerFamily].init)
       IN /\ genForcesOnSoup' =
                [written |-> TRUE, defined |-> defined,
                 data |-> IF defined /\ nFam > 0
                          THEN CollectedForces(mheap[soup.generalizedForcesPerFamily].data, nFam)
                          ELSE <<>>]
          /\ meshErr' = [meshErr EXCEPT !.wildAccess = @ \/ wild]
    /\ lastOp' = "collectGeneralizedForcesOnMeshSoup"
    /\ UNCHANGED <<containers, soup, tri_params, mheap, life, loads, meshCfg, contact, SU2UU, triSD,
                   initialized, steps, meshFile, beyondMesh>>

\* result = rot_mat * p + pos
ApplyFrameTransform(p, pos, rot_mat) ==
    Vec(rot_mat[1] * p.x + rot_mat[2] * p.y + rot_mat[3] * p.z + pos[1],
        rot_mat[4] * p.x + rot_mat[5] * p.y + rot_mat[6] * p.z + pos[2],
        rot_mat[7] * p.x + rot_mat[8] * p.y + rot_mat[9] * p.z + pos[3])

\* the POINTS section of <filename>_mesh.vtk
WrittenPoints ==
    LET frames == mheap[tri_params.fam_frame_broad].data
        point(j) ==
            LET tri_i == (j - 1) \div 3 + 1
                fam == mheap[soup.triangleFamily_ID].data[tri_i]
                node == IF (j - 1) % 3 = 0 THEN mheap[soup.node1].data[tri_i]
                        ELSE IF (j - 1) % 3 = 1 THEN mheap[soup.node2].data[tri_i]
                        ELSE mheap[soup.node3].data[tri_i]
            IN ApplyFrameTransform(node, frames[fam + 1].pos, frames[fam + 1].rot_mat)
    IN [j \in 1..(3 * soup.nTrianglesInSoup) |-> point(j)]

write_meshes ==
    /\ MeshUsable
    /\ initialized > 0
    /\ IF meshCfg.file_write_mode = "NONE"
       THEN UNCHANGED meshFile
       ELSE LET defined == soup.nTrianglesInSoup = 0 \/ mheap[tri_params.fam_frame_broad].init
            IN meshFile' = [written |-> TRUE, defined |-> defined,
                            points |-> IF defined /\ soup.nTrianglesInSoup > 0
                                       THEN WrittenPoints ELSE <<>>]
    /\ lastOp' = "write_meshes"
    /\ UNCHANGED <<soupVars, meshCfg, contact, SU2UU, triSD, initialized, steps, genForcesOnSoup,
                   beyondMesh>>

\* the rows the coupled rigid-body system hands over for nFam families before
\* the step-th step
Quaternions == << <<1, 0, 0, 0>>, <<0, 1, 0, 0>> >>
PoseData(step, nFam) ==
    [j \in 1..(7 * nFam) |->
        LET fam == (j - 1) \div 7
            k == (j - 1) % 7
        IN IF k < 3 THEN step + fam + k ELSE Quaternions[(step % 2) + 1][k - 2]]
VelData(step, nFam) == [j \in 1..(6 * nFam) |-> step * j]
\* the forces the step engine finds in its step-th step
ForceData(step, nFam) == [j \in 1..(6 * nFam) |-> step * j - 2]

\* the argument vectors of a load_meshes call: n file names and, for the other
\* four vectors, either n entries each or one vector with an entry too many
FileLists(n) ==
    {[i \in 1..n |-> MeshFiles[((start + i) % Len(MeshFiles)) + 1]] : start \in 1..Len(MeshFiles)}
MeshPresets == {[sc |-> Vec(1, 1, 1), m |-> 1, r |-> 0], [sc |-> Vec(2, 1, 3), m |-> 3, r |-> 2]}
Surplus == {"none", "scalings", "masses", "inflated", "inflation_radii"}
LenOf(n, vector, surplus) == IF surplus = vector THEN n + 1 ELSE n
LoadInputs ==
    UNION { { [objfilenames |-> files,
               scalings |-> [i \in 1..LenOf(n, "scalings", x) |-> p.sc],
               masses |-> [i \in 1..LenOf(n, "masses", x) |-> p.m],
               inflated |-> [i \in 1..LenOf(n, "inflated", x) |-> (p.r > 0)],
               inflation_radii |-> [i \in 1..LenOf(n, "inflation_radii", x) |-> p.r]] :
              files \in FileLists(n), p \in MeshPresets, x \in Surplus } :
            n \in 0..MaxMeshes }

ReadViews == {"stale", "other"}

\* the simulator object after construction, gravity being grav
InitConstructed(grav) ==
    /\ sphere_radius = MaxRadius
    /\ sphere_density \in Densities
    /\ box = "uninit"
    /\ accGrav = grav
    /\ modulusYoung_SPH2SPH = "uninit"
    /\ modulusYoung_SPH2WALL = "uninit"
    /\ PSI = CHOOSE f \in PsiFactors : f.T = 1
    /\ AVERAGE_SPHERES_PER_SD \in {CHOOSE t \in AvgTargets : TRUE}
    /\ InitUnset
    /\ stage = "setBOXdims"
    /\ InitStoreVars
    /\ \E w \in OutputModes : InitMeshVars(w)
    /\ lastOp = "construct"

InitMesh ==
    /\ InitConstructed([X |-> 0, Y |-> 0, Z |-> -MaxGrav])
    /\ winding = IdleWinding
    /\ kernel = IdleKernel
    /\ InitNoDriver

\* the soup in use: loaded or not, initialized, then driven step by step
NextMesh ==
    \/ /\ initialized = 0
       /\ \E in \in LoadInputs : load_meshes(in) /\ UNCHANGED driverVars
    \/ /\ lastOp \in {"construct", "load_meshes", "initialize"}
       /\ \E sys \in UnitSystems : initialize(sys) /\ UNCHANGED driverVars
    \/ /\ meshSoup_applyRigidBodyMotion(PoseData(steps + 1, soup.numTriangleFamilies),
                                        VelData(steps + 1, soup.numTriangleFamilies))
       /\ UNCHANGED driverVars
    \/ advance_simulation(ForceData(steps + 1, soup.numTriangleFamilies))
          /\ UNCHANGED driverVars
    \/ collectGeneralizedForcesOnMeshSoup /\ UNCHANGED driverVars
    \/ write_meshes /\ UNCHANGED driverVars

SpecMesh == InitMesh /\ [][NextMesh]_vars

\* the soup's lifetime: loaded or not, released explicitly or not, destroyed
NextRelease ==
    \/ \E in \in LoadInputs : load_meshes(in) /\ UNCHANGED driverVars
    \/ \E view \in ReadViews : cleanupTriMesh_DEVICE(view) /\ UNCHANGED driverVars
    \/ \E view \in ReadViews : Destructor(view) /\ UNCHANGED driverVars

SpecRelease == InitMesh /\ [][NextRelease]_vars

(* ------------------------------------------------------------------ *)
(* One triangle through the winding test of setupTriMesh_DEVICE         *)
(* ------------------------------------------------------------------ *)
Coords == 0..MaxCoord
Points == {Vec(x, y, z) : x \in Coords, y \in Coords, z \in Coords}
FirstPoints == {Vec(0, 0, 0), Vec(MaxCoord, 0, MaxCoord)}
StoredNormals ==
    {Vec(0, 0, 1), Vec(0, 0, -1), Vec(0, 1, 0), Vec(0, -1, 0), Vec(1, 0, 0), Vec(-1, 0, 0),
     Vec(1, 1, 1)}

InitWinding ==
    /\ InitConstructed([X |-> 0, Y |-> 0, Z |-> -MaxGrav])
    /\ InitNoDriver
    /\ kernel = IdleKernel
    /\ winding \in {[tri |-> Tri(p1, p2, p3), normal |-> n, stored |-> FALSE, nodes |-> <<>>] :
                      p1 \in FirstPoints, p2 \in Points, p3 \in Points, n \in StoredNormals}

\* one pass of the inner loop of setupTriMesh_DEVICE: the triangle is written
\* to node1..node3 and node2, node3 are swapped if the winding test says so
storeTriangle ==
    /\ ~winding.stored
    /\ winding' = [winding EXCEPT !.stored = TRUE,
                                  !.nodes = StoredNodes(winding.tri, winding.normal)]
    /\ lastOp' = "setupTriMesh_DEVICE"
    /\ UNCHANGED <<unitsAndStore, meshVars, kernel, driverVars>>

NextWinding == storeTriangle

SpecWinding == InitWinding /\ [][NextWinding]_vars

(* ------------------------------------------------------------------ *)
(* One step of the engine, unit of work by unit of work                 *)
(* ------------------------------------------------------------------ *)
\* The spheres are followed along one axis: SD k spans [k * SD, (k + 1) * SD],
\* a sphere at x reaches from x - r to x + r.
KernelWorld == [nSDs |-> 2, SD |-> 2, r |-> 1]
KernelSDs == 0..(KernelWorld.nSDs - 1)

\* positions the spheres may start from, already in SU
KernelClouds == {<<0, 4>>, <<0, 2>>, <<2, 2>>, <<2, 2, 2>>}

\* the SDs a sphere at x touches
TouchedAlongAxis(x) ==
    {k \in KernelSDs :
        /\ k * KernelWorld.SD <= x + KernelWorld.r
        /\ x - KernelWorld.r <= (k + 1) * KernelWorld.SD}

\* the device state setup_simulation leaves: the positions copied, the
\* velocities and the pending updates cleared, the SD arrays allocated only
KernelAfterSetup(cloud) ==
    [X |-> cloud, XDOT |-> Zeros(Len(cloud)), XDOT_update |-> Zeros(Len(cloud)),
     SD_NumOf_DEs_Touching |-> <<>>, DEs_in_SD_composite |-> <<>>,
     phase |-> "boundary", launched |-> {}, work |-> {}, done |-> {},
     total |-> Zeros(Len(cloud)), stepsDone |-> 0]

KernelSpheres == 1..Len(kernel.X)

\* a unit of work that was launched and has not read its input yet
Unit(phase, id) == [phase |-> phase, unit |-> id]
\* one write of a unit of work: c is added to the entry on
Write(phase, id, on, c) == [phase |-> phase, unit |-> id, on |-> on, c |-> c]

\* a host that does not wait for the running units
Synchronized_NoWait == TRUE

\* the host's synchronization point: every unit launched so far has finished
Synchronized == kernel.launched = {} /\ kernel.work = {}

\* a plain store in place of the atomic add
AtomicAdd_Overwrite(old, c) == c

\* atomicAdd: the entry after c is added to it; the caller is given old
AtomicAdd(old, c) == old + c

\* the host launches the broad phase of the next step: the touch counts and
\* the membership lists are reset, one unit of work per sphere, which has one
\* append to make for every SD its sphere touches
launch_broad_phase ==
    /\ kernel.phase = "boundary"
    /\ kernel.stepsDone < MaxSteps
    /\ kernel' = [kernel EXCEPT
            !.phase = "broad",
            !.SD_NumOf_DEs_Touching = [sd \in KernelSDs |-> 0],
            !.DEs_in_SD_composite = [sd \in KernelSDs |-> Zeros(MAX_COUNT_OF_DEs_PER_SD)],
            !.work = UNION {{Write("broad", s, sd, 1) : sd \in TouchedAlongAxis(kernel.X[s])} :
                                s \in KernelSpheres},
            !.done = {}]
    /\ lastOp' = "launch_broad_phase"
    /\ UNCHANGED <<unitsAndStore, meshVars, winding, driverVars>>

\* one append of a broad-phase unit: the touch count of the SD is raised by
\* atomicAdd, the sphere is stored in the slot the atomicAdd returned; a full
\* SD ends the run
broad_append ==
    /\ \E w \in kernel.work :
        /\ w.phase = "broad"
        /\ LET old == kernel.SD_NumOf_DEs_Touching[w.on]
           IN IF old >= MAX_COUNT_OF_DEs_PER_SD
              THEN kernel' = [kernel EXCEPT !.phase = "aborted", !.launched = {}, !.work = {}]
              ELSE kernel' = [kernel EXCEPT
                        !.SD_NumOf_DEs_Touching[w.on] = AtomicAdd(old, w.c),
                        !.DEs_in_SD_composite[w.on][old + 1] = w.unit,
                        !.work = @ \ {w},
                        !.done = @ \cup {w}]
    /\ lastOp' = "broad_append"
    /\ UNCHANGED <<unitsAndStore, meshVars, winding, driverVars>>

\* the host launches the narrow phase: one unit of work per SD
launch_narrow_phase ==
    /\ kernel.phase = "broad"
    /\ Synchronized
    /\ kernel' = [kernel EXCEPT
            !.phase = "narrow",
            !.launched = @ \cup {Unit("narrow", sd) : sd \in KernelSDs}]
    /\ lastOp' = "launch_narrow_phase"
    /\ UNCHANGED <<unitsAndStore, meshVars, winding, driverVars>>

\* the spheres listed for SD sd
MembersOf(sd) ==
    {kernel.DEs_in_SD_composite[sd][i] : i \in 1..kernel.SD_NumOf_DEs_Touching[sd]} \ {0}

\* the push of sphere q on sphere s, one unit away from q
Push(s, q) ==
    IF kernel.X[s] > kernel.X[q] \/ (kernel.X[s] = kernel.X[q] /\ s > q) THEN 1 ELSE -1

RECURSIVE SumOfPushes(_, _)
SumOfPushes(s, others) ==
    IF others = {} THEN 0
    ELSE LET q == CHOOSE q \in others : TRUE
         IN Push(s, q) + SumOfPushes(s, others \ {q})

\* a narrow-phase unit reads the membership list of its SD and finds the
\* contribution it has for every member
narrow_read ==
    /\ \E u \in kernel.launched :
        /\ u.phase = "narrow"
        /\ LET members == MembersOf(u.unit)
           IN kernel' = [kernel EXCEPT
                    !.launched = @ \ {u},
                    !.work = @ \cup {Write("narrow", u.unit, s, SumOfPushes(s, members \ {s})) :
                                        s \in {m \in members : members \ {m} # {}}}]
    /\ lastOp' = "narrow_read"
    /\ UNCHANGED <<unitsAndStore, meshVars, winding, driverVars>>

\* one contribution of a narrow-phase unit is added to the pending update of
\* its sphere by atomicAdd
narrow_add ==
    /\ \E w \in kernel.work :
        /\ w.phase = "narrow"
        /\ kernel' = [kernel EXCEPT
                !.XDOT_update[w.on] = AtomicAdd(@, w.c),
                !.total[w.on] = @ + w.c,
                !.work = @ \ {w},
                !.done = @ \cup {w}]
    /\ lastOp' = "narrow_add"
    /\ UNCHANGED <<unitsAndStore, meshVars, winding, driverVars>>

\* the host launches the integration: one unit of work per sphere
launch_integration ==
    /\ kernel.phase = "narrow"
    /\ Synchronized
    /\ kernel' = [kernel EXCEPT
            !.phase = "integration",
            !.launched = @ \cup {Unit("integration", s) : s \in KernelSpheres}]
    /\ lastOp' = "launch_integration"
    /\ UNCHANGED <<unitsAndStore, meshVars, winding, driverVars>>

\* an integration that leaves the pending update in the buffer
Integrated_NotCleared(x, xdot, update) ==
    [X |-> x + (xdot + update), XDOT |-> xdot + update, XDOT_update |-> update]

\* one sphere through the integration: the pending update is added to the
\* velocity, the position advances with the new velocity, the update is cleared
Integrated(x, xdot, update) ==
    [X |-> x + (xdot + update), XDOT |-> xdot + update, XDOT_update |-> 0]

\* an integration unit takes its sphere through the integration
integrate ==
    /\ \E u \in kernel.launched :
        /\ u.phase = "integration"
        /\ LET s == u.unit
               after == Integrated(kernel.X[s], kernel.XDOT[s], kernel.XDOT_update[s])
           IN kernel' = [kernel EXCEPT
                    !.X[s] = after.X,
                    !.XDOT[s] = after.XDOT,
                    !.XDOT_update[s] = after.XDOT_update,
                    !.launched = @ \ {u}]
    /\ lastOp' = "integrate"
    /\ UNCHANGED <<unitsAndStore, meshVars, winding, driverVars>>

\* the host waits for the integration: the step is complete
step_done ==
    /\ kernel.phase = "integration"
    /\ Synchronized
    /\ kernel' = [kernel EXCEPT !.phase = "boundary", !.stepsDone = @ + 1]
    /\ lastOp' = "step_done"
    /\ UNCHANGED <<unitsAndStore, meshVars, winding, driverVars>>

InitStep ==
    /\ InitConstructed([X |-> 0, Y |-> 0, Z |-> -MaxGrav])
    /\ InitNoDriver
    /\ winding = IdleWinding
    /\ kernel \in {KernelAfterSetup(cloud) : cloud \in KernelClouds}

NextStep ==
    \/ launch_broad_phase
    \/ broad_append
    \/ launch_narrow_phase
    \/ narrow_read
    \/ narrow_add
    \/ launch_integration
    \/ integrate
    \/ step_done

SpecStep == InitStep /\ [][NextStep]_vars

(* ------------------------------------------------------------------ *)
(* The demo programs                                                    *)
(* ------------------------------------------------------------------ *)
Demos == {"DamBreak", "BoxSettl", "robosimian"}

\* a set-up that chooses the friction mode only after initialize()
DamBreakSetup_LateFrictionMode ==
    << "setBOXdims", "set_K_n_SPH2SPH", "set_K_n_SPH2WALL", "set_Gamma_n_SPH2SPH",
       "set_Gamma_n_SPH2WALL", "set_K_t_SPH2SPH", "set_K_t_SPH2WALL", "set_Gamma_t_SPH2SPH",
       "set_Gamma_t_SPH2WALL", "set_Cohesion_ratio", "set_Adhesion_ratio_S2W",
       "set_gravitational_acceleration", "setOutputDirectory", "setOutputMode",
       "set_timeStepping", "set_timeIntegrator", "set_contactModel",
       "set_fixed_stepSize", "setVerbose", "set_BD_Fixed", "setParticlePositions",
       "Create_BC_Plane", "initialize", "set_friction_mode" >>

\* the calls main() makes on the simulator before its loop, in order
DamBreakSetup ==
    << "setBOXdims", "set_K_n_SPH2SPH", "set_K_n_SPH2WALL", "set_Gamma_n_SPH2SPH",
       "set_Gamma_n_SPH2WALL", "set_K_t_SPH2SPH", "set_K_t_SPH2WALL", "set_Gamma_t_SPH2SPH",
       "set_Gamma_t_SPH2WALL", "set_Cohesion_ratio", "set_Adhesion_ratio_S2W",
       "set_gravitational_acceleration", "setOutputDirectory", "setOutputMode",
       "set_timeStepping", "set_timeIntegrator", "set_friction_mode", "set_contactModel",
       "set_fixed_stepSize", "setVerbose", "set_BD_Fixed", "setParticlePositions",
       "Create_BC_Plane", "initialize" >>
BoxSettlSetup ==
    << "setBOXdims", "set_K_n_SPH2SPH", "set_K_n_SPH2WALL", "set_Gamma_n_SPH2SPH",
       "set_Gamma_n_SPH2WALL", "set_Gamma_t_SPH2SPH", "set_mu_t_SPH2SPH", "set_Cohesion_ratio",
       "set_gravitational_acceleration", "setOutputDirectory", "setOutputMode",
       "setParticlePositions", "set_timeStepping", "set_timeIntegrator", "set_fixed_stepSize",
       "setBDPositionFunction", "set_BD_Fixed", "setVerbose", "initialize" >>
RobosimianSetup ==
    << "setBOXdims", "setParticlePositions", "set_BD_Fixed", "set_K_n_SPH2SPH",
       "set_K_n_SPH2WALL", "set_K_n_SPH2MESH", "set_Gamma_n_SPH2SPH", "set_Gamma_n_SPH2WALL",
       "setPsiFactors", "set_Gamma_n_SPH2MESH", "set_Cohesion_ratio",
       "set_gravitational_acceleration", "set_timeStepping", "set_timeIntegrator",
       "set_fixed_stepSize", "load_meshes", "disableMeshCollision", "setOutputDirectory",
       "setOutputMode", "setVerbose", "initialize" >>

\* a dam-break loop that tests the plane only after the step
DamBreakLoop_DisableAfterStep == << "advance_simulation", "disable_BC_by_ID", "writeFileUU" >>

\* a robot loop that steps the rigid-body system before the granular one
RobosimianLoop_HostFirst ==
    << "enableMeshCollision", "Empty_forces_accumulators", "meshSoup_applyRigidBodyMotion",
       "collectGeneralizedForcesOnMeshSoup", "Accumulate_force", "writeFileUU", "write_meshes",
       "DoStepDynamics", "advance_simulation" >>

\* a robot loop that never empties the wheels' accumulators
RobosimianLoop_NeverEmptied ==
    << "enableMeshCollision", "meshSoup_applyRigidBodyMotion",
       "collectGeneralizedForcesOnMeshSoup", "Accumulate_force", "writeFileUU", "write_meshes",
       "advance_simulation", "DoStepDynamics" >>

\* a robot loop that writes the meshes before it pushes their motion
RobosimianLoop_WriteFirst ==
    << "enableMeshCollision", "Empty_forces_accumulators", "writeFileUU", "write_meshes",
       "meshSoup_applyRigidBodyMotion", "collectGeneralizedForcesOnMeshSoup", "Accumulate_force",
       "advance_simulation", "DoStepDynamics" >>

\* the calls of one pass of main()'s loop, in order
DamBreakLoop == << "disable_BC_by_ID", "advance_simulation", "writeFileUU" >>
BoxSettlLoop == << "advance_simulation", "writeFileUU" >>
RobosimianLoop ==
    << "enableMeshCollision", "Empty_forces_accumulators", "meshSoup_applyRigidBodyMotion",
       "collectGeneralizedForcesOnMeshSoup", "Accumulate_force", "writeFileUU", "write_meshes",
       "advance_simulation", "DoStepDynamics" >>

SetupCalls(d) ==
    CASE d = "DamBreak" -> DamBreakSetup
      [] d = "BoxSettl" -> BoxSettlSetup
      [] d = "robosimian" -> RobosimianSetup
LoopCalls(d) ==
    CASE d = "DamBreak" -> DamBreakLoop
      [] d = "BoxSettl" -> BoxSettlLoop
      [] d = "robosimian" -> RobosimianLoop

\* calls under an if: the call that opens the block, and the block's length
Conditional(d) ==
    CASE d = "DamBreak" -> {"disable_BC_by_ID"}
      [] d = "BoxSettl" -> {}
      [] d = "robosimian" -> {"enableMeshCollision", "writeFileUU"}
BlockLength(d, call) == IF d = "robosimian" /\ call = "writeFileUU" THEN 2 ELSE 1

\* calls behind a flag that is cleared when they are made (plane_active,
\* terrain_created)
OnceOnly == {"disable_BC_by_ID", "enableMeshCollision"}

\* calls whose effect on the simulator is followed in detail
Followed ==
    {"setBOXdims", "set_K_n_SPH2SPH", "set_K_n_SPH2WALL", "set_gravitational_acceleration",
     "load_meshes", "initialize", "meshSoup_applyRigidBodyMotion",
     "collectGeneralizedForcesOnMeshSoup", "write_meshes", "advance_simulation",
     "disableMeshCollision", "enableMeshCollision", "Create_BC_Plane", "disable_BC_by_ID",
     "DoStepDynamics", "Empty_forces_accumulators", "Accumulate_force"}

Running == pc.phase # "done"
CurrentCall == IF pc.phase = "setup" THEN SetupCalls(demo)[pc.at] ELSE LoopCalls(demo)[pc.at]

\* the position n calls after p; the loop runs while curr_time < time_end
After(p, n) ==
    IF p.phase = "setup"
    THEN IF p.at + n <= Len(SetupCalls(demo)) THEN [p EXCEPT !.at = p.at + n]
         ELSE IF p.end > 0 THEN [p EXCEPT !.phase = "loop", !.at = 1]
         ELSE [p EXCEPT !.phase = "done", !.at = 0]
    ELSE IF p.at + n <= Len(LoopCalls(demo)) THEN [p EXCEPT !.at = p.at + n]
         ELSE IF p.iter + 1 < p.end THEN [p EXCEPT !.at = 1, !.iter = p.iter + 1]
         ELSE [p EXCEPT !.phase = "done", !.at = 0, !.iter = p.iter + 1]

\* the call is made: it is noted, together with whether initialize() came first
Called(call) ==
    [engine EXCEPT !.calls = @ \cup {call},
                   !.late = IF initialized > 0 THEN @ \cup {call} ELSE @]

InitDemos ==
    /\ InitConstructed("uninit")
    /\ winding = IdleWinding
    /\ kernel = IdleKernel
    /\ demo \in Demos
    /\ pc \in {[phase |-> "setup", at |-> 1, iter |-> 0, end |-> e, switch_at |-> t] :
                    e \in 0..MaxSteps, t \in 0..MaxSteps}
    /\ engine = [calls |-> {}, late |-> {}, earlyAdvance |-> FALSE, hostSteps |-> 0,
                 plane_bc_id |-> -1, body_forces |-> <<>>]
    /\ coupling = [pushed |-> FALSE, pulled |-> FALSE]

\* conditions that test the flag but not the time
ConditionValues_NoTimeTest(call) ==
    IF call \in OnceOnly THEN {call \notin engine.calls} ELSE BOOLEAN

\* the values the condition of the if around the call can have.  The time
\* unit is one loop step and pc.switch_at the number of steps that make up the
\* time the program waits for (1 in DamBreak, time_create_terrain in the robot
\* run): DamBreak tests plane_active && curr_time > 1, the robot run tests
\* drop && !terrain_created && my_sys.GetChTime() > time_create_terrain, and
\* the output block depends on the frame rate
ConditionValues(call) ==
    IF call \in OnceOnly
    THEN {/\ call \notin engine.calls
          /\ (IF call = "disable_BC_by_ID" THEN pc.iter ELSE engine.hostSteps) > pc.switch_at}
    ELSE BOOLEAN

\* a call that only sets an option or belongs to the rigid-body system
demo_call ==
    /\ Running
    /\ CurrentCall \notin Followed
    /\ CurrentCall \in Conditional(demo) => TRUE \in ConditionValues(CurrentCall)
    /\ engine' = Called(CurrentCall)
    /\ pc' = After(pc, 1)
    /\ lastOp' = CurrentCall
    /\ UNCHANGED <<unitsAndStore, meshVars, winding, kernel, demo, coupling>>

\* the condition of an if is false: its block is passed over
demo_skip ==
    /\ Running
    /\ CurrentCall \in Conditional(demo)
    /\ FALSE \in ConditionValues(CurrentCall)
    /\ pc' = After(pc, BlockLength(demo, CurrentCall))
    /\ UNCHANGED <<unitsAndStore, meshVars, winding, kernel, demo, engine, coupling, lastOp>>

demo_setBOXdims ==
    /\ Running
    /\ CurrentCall = "setBOXdims"
    /\ setBOXdims(MaxBox, MaxBox, MaxBox)
    /\ engine' = Called(CurrentCall)
    /\ pc' = After(pc, 1)
    /\ UNCHANGED <<demo, coupling>>

demo_set_K_n_SPH2SPH ==
    /\ Running
    /\ CurrentCall = "set_K_n_SPH2SPH"
    /\ set_K_n_SPH2SPH(MaxK)
    /\ engine' = Called(CurrentCall)
    /\ pc' = After(pc, 1)
    /\ UNCHANGED <<demo, coupling>>

demo_set_K_n_SPH2WALL ==
    /\ Running
    /\ CurrentCall = "set_K_n_SPH2WALL"
    /\ set_K_n_SPH2WALL(MaxK)
    /\ engine' = Called(CurrentCall)
    /\ pc' = After(pc, 1)
    /\ UNCHANGED <<demo, coupling>>

demo_set_gravitational_acceleration ==
    /\ Running
    /\ CurrentCall = "set_gravitational_acceleration"
    /\ set_gravitational_acceleration(0, 0, -MaxGrav)
    /\ engine' = Called(CurrentCall)
    /\ pc' = After(pc, 1)
    /\ UNCHANGED <<demo, coupling>>

\* the vectors main() builds have one entry per mesh body
DemoMeshInputs ==
    {in \in LoadInputs :
        \A f \in {"scalings", "masses", "inflated", "inflation_radii"} :
            Len(in[f]) = Len(in.objfilenames)}

demo_load_meshes ==
    /\ Running
    /\ CurrentCall = "load_meshes"
    /\ \E in \in DemoMeshInputs : load_meshes(in)
    /\ engine' = Called(CurrentCall)
    /\ pc' = After(pc, 1)
    /\ UNCHANGED <<demo, coupling>>

demo_initialize ==
    /\ Running
    /\ CurrentCall = "initialize"
    /\ \E sys \in UnitSystems :
          IF demo = "robosimian" THEN initialize(sys) ELSE initialize_MonodisperseSMC(sys)
    /\ engine' = Called(CurrentCall)
    /\ pc' = After(pc, 1)
    /\ UNCHANGED <<demo, coupling>>

demo_meshSoup_applyRigidBodyMotion ==
    /\ Running
    /\ CurrentCall = "meshSoup_applyRigidBodyMotion"
    /\ meshSoup_applyRigidBodyMotion(PoseData(steps + 1, soup.numTriangleFamilies),
                                     VelData(steps + 1, soup.numTriangleFamilies))
    /\ engine' = Called(CurrentCall)
    /\ coupling' = [coupling EXCEPT !.pushed = TRUE]
    /\ pc' = After(pc, 1)
    /\ UNCHANGED demo

demo_collectGeneralizedForcesOnMeshSoup ==
    /\ Running
    /\ CurrentCall = "collectGeneralizedForcesOnMeshSoup"
    /\ collectGeneralizedForcesOnMeshSoup
    /\ engine' = Called(CurrentCall)
    /\ coupling' = [coupling EXCEPT !.pulled = TRUE]
    /\ pc' = After(pc, 1)
    /\ UNCHANGED demo

demo_write_meshes ==
    /\ Running
    /\ CurrentCall = "write_meshes"
    /\ write_meshes
    /\ engine' = Called(CurrentCall)
    /\ pc' = After(pc, 1)
    /\ UNCHANGED <<demo, coupling>>

\* advance_simulation on a simulator that was never initialized has no defined
\* effect; it is noted and the program goes on
demo_advance_simulation ==
    /\ Running
    /\ CurrentCall = "advance_simulation"
    /\ IF initialized = 0
       THEN /\ engine' = [Called(CurrentCall) EXCEPT !.earlyAdvance = TRUE]
            /\ lastOp' = "advance_simulation"
            /\ UNCHANGED <<unitsAndStore, meshVars, winding, kernel>>
       ELSE /\ advance_simulation(ForceData(steps + 1, soup.numTriangleFamilies))
            /\ engine' = Called(CurrentCall)
    /\ coupling' = [pushed |-> FALSE, pulled |-> FALSE]
    /\ pc' = After(pc, 1)
    /\ UNCHANGED demo

\* disableMeshCollision() before the loop
demo_disableMeshCollision ==
    /\ Running
    /\ CurrentCall = "disableMeshCollision"
    /\ meshCfg' = [meshCfg EXCEPT !.mesh_collision_enabled = FALSE]
    /\ engine' = Called(CurrentCall)
    /\ pc' = After(pc, 1)
    /\ lastOp' = CurrentCall
    /\ UNCHANGED <<soupVars, contact, SU2UU, triSD, initialized, steps, genForcesOnSoup,
                   meshFile>>
    /\ UNCHANGED <<unitsAndStore, winding, kernel, demo, coupling>>

\* the block under the terrain-creation test: enableMeshCollision(), then
\* terrain_created = true
demo_enableMeshCollision ==
    /\ Running
    /\ CurrentCall = "enableMeshCollision"
    /\ TRUE \in ConditionValues(CurrentCall)
    /\ meshCfg' = [meshCfg EXCEPT !.mesh_collision_enabled = TRUE]
    /\ engine' = Called(CurrentCall)
    /\ pc' = After(pc, 1)
    /\ lastOp' = CurrentCall
    /\ UNCHANGED <<soupVars, contact, SU2UU, triSD, initialized, steps, genForcesOnSoup,
                   meshFile>>
    /\ UNCHANGED <<unitsAndStore, winding, kernel, demo, coupling>>

\* plane_bc_id = Create_BC_Plane(...): the new boundary condition is active and
\* its handle is its index in the list
demo_Create_BC_Plane ==
    /\ Running
    /\ CurrentCall = "Create_BC_Plane"
    /\ meshCfg' = [meshCfg EXCEPT !.BC_active = Append(@, TRUE)]
    /\ engine' = [Called(CurrentCall) EXCEPT !.plane_bc_id = Len(meshCfg.BC_active)]
    /\ pc' = After(pc, 1)
    /\ lastOp' = CurrentCall
    /\ UNCHANGED <<soupVars, contact, SU2UU, triSD, initialized, steps, genForcesOnSoup,
                   meshFile>>
    /\ UNCHANGED <<unitsAndStore, winding, kernel, demo, coupling>>

\* the block under the plane test: plane_active = false, then
\* disable_BC_by_ID(plane_bc_id)
demo_disable_BC_by_ID ==
    /\ Running
    /\ CurrentCall = "disable_BC_by_ID"
    /\ TRUE \in ConditionValues(CurrentCall)
    /\ meshCfg' = [meshCfg EXCEPT !.BC_active[engine.plane_bc_id + 1] = FALSE]
    /\ engine' = Called(CurrentCall)
    /\ pc' = After(pc, 1)
    /\ lastOp' = CurrentCall
    /\ UNCHANGED <<soupVars, contact, SU2UU, triSD, initialized, steps, genForcesOnSoup,
                   meshFile>>
    /\ UNCHANGED <<unitsAndStore, winding, kernel, demo, coupling>>

\* robot.DoStepDynamics(time_step): the rigid-body system advances by one step
demo_DoStepDynamics ==
    /\ Running
    /\ CurrentCall = "DoStepDynamics"
    /\ engine' = [Called(CurrentCall) EXCEPT !.hostSteps = @ + 1]
    /\ pc' = After(pc, 1)
    /\ lastOp' = CurrentCall
    /\ UNCHANGED <<unitsAndStore, meshVars, winding, kernel, demo, coupling>>

\* num_mesh_bodies: one body per mesh file given to load_meshes
num_mesh_bodies == soup.numTriangleFamilies

\* wheel->Empty_forces_accumulators() for every mesh body.  A body's
\* accumulator is kept as the terms added since it was last emptied.
demo_Empty_forces_accumulators ==
    /\ Running
    /\ CurrentCall = "Empty_forces_accumulators"
    /\ engine' = [Called(CurrentCall) EXCEPT
                    !.body_forces = [i \in 1..num_mesh_bodies |-> <<>>]]
    /\ pc' = After(pc, 1)
    /\ lastOp' = CurrentCall
    /\ UNCHANGED <<unitsAndStore, meshVars, winding, kernel, demo, coupling>>

\* the entries of mesh_forces that body i (counted from 0) is given as force
\* and as torque: body_family_offset = i * 6
AppliedEntries(i) ==
    [force |-> <<6 * i + 0, 6 * i + 1, 6 * i + 2>>,
     torque |-> <<6 * i + 3, 6 * i + 4, 5>>]

\* Accumulate_force and Accumulate_torque on every mesh body, in the pass
\* pc.iter of the loop
demo_Accumulate_force ==
    /\ Running
    /\ CurrentCall = "Accumulate_force"
    /\ engine' = [Called(CurrentCall) EXCEPT
                    !.body_forces =
                        [i \in 1..num_mesh_bodies |->
                            Append(IF i <= Len(@) THEN @[i] ELSE <<>>,
                                   [iter |-> pc.iter] @@ AppliedEntries(i - 1))]]
    /\ pc' = After(pc, 1)
    /\ lastOp' = CurrentCall
    /\ UNCHANGED <<unitsAndStore, meshVars, winding, kernel, demo, coupling>>

NextDemos ==
    \/ demo_call
    \/ demo_skip
    \/ demo_setBOXdims
    \/ demo_set_K_n_SPH2SPH
    \/ demo_set_K_n_SPH2WALL
    \/ demo_set_gravitational_acceleration
    \/ demo_load_meshes
    \/ demo_initialize
    \/ demo_meshSoup_applyRigidBodyMotion
    \/ demo_collectGeneralizedForcesOnMeshSoup
    \/ demo_write_meshes
    \/ demo_advance_simulation
    \/ demo_disableMeshCollision
    \/ demo_enableMeshCollision
    \/ demo_Create_BC_Plane
    \/ demo_disable_BC_by_ID
    \/ demo_DoStepDynamics
    \/ demo_Empty_forces_accumulators
    \/ demo_Accumulate_force

SpecDemos == InitDemos /\ [][NextDemos]_vars

(* ------------------------------------------------------------------ *)
(* Claims                                                               *)
(* ------------------------------------------------------------------ *)
\* SD count x SD size in SU x LENGTH_UNIT >= the requested box extent
Covers(a) == nSDs_SU[a] * SD_SU[a] * LENGTH_UNIT.n >= box[a] * LENGTH_UNIT.d

EvenAndAtLeastTwo(a) == nSDs_SU[a] % 2 = 0 /\ nSDs_SU[a] >= 2

\* C1: after partition_BD, on every axis with positive box extent, positive
\* sphere radius and positive average-spheres-per-SD target, the SD count is
\* even and at least 2 and the SD grid covers the requested box extent.
C1_PartitionCoversBox ==
    stage = "partitioned" =>
        \A a \in Axes :
            (box[a] > 0 /\ sphere_radius > 0 /\ AVERAGE_SPHERES_PER_SD[a] > 0)
                => (EvenAndAtLeastTwo(a) /\ Covers(a))

\* What does hold: the counts are always even and at least 2, and the grid
\* covers the box whenever the derived LENGTH_UNIT is positive.
PartitionCoversBoxWhenLengthUnitPositive ==
    stage = "partitioned" =>
        \A a \in Axes : EvenAndAtLeastTwo(a) /\ (LENGTH_UNIT.n > 0 => Covers(a))

\* every block was passed to cudaFree at most once
NoDoubleFree == \A i \in 1..Len(heap) : heap[i].frees <= 1

\* cudaFree was never called on nullptr
NoNullFree == nullFrees = 0

AllBuffersNull == \A b \in Buffers : ptr[b] = 0

\* C2: cleanup_simulation is idempotent and null-safe: in any sequence of calls
\* (before setup_simulation, after it, repeated) no block is freed twice and no
\* null pointer is passed to cudaFree, and a call that directly follows another
\* cleanup, or that finds every pointer null, changes nothing.
C2_CleanupIdempotentNullSafe ==
    /\ [](NoDoubleFree /\ NoNullFree)
    /\ [][(lastOp' = "cleanup_simulation"
            /\ (lastOp = "cleanup_simulation" \/ AllBuffersNull))
          => UNCHANGED <<unitsAndStore, meshVars>>]_vars

\* cleanup, setup, cleanup, setup, cleanup: the blocks of both set-ups were
\* freed by separate cleanups, and the last call found them already freed
C2_Witness ==
    /\ lastOp = "cleanup_simulation"
    /\ setups = 2
    /\ heap[1].frees = 1
    /\ heap[Len(SetupOrder) + 1].frees = 1
    /\ \A b \in CleanupFreed : ptr[b] = 0

\* the blocks the last setup_simulation allocated
LastSetupBlocks == {i \in 1..Len(heap) : i > Len(heap) - Len(SetupOrder)}

\* C3: after cleanup_simulation returns, every device buffer setup_simulation
\* allocated (positions, velocities, pending velocity updates, the per-SD
\* touch counts and the per-SD membership list) is freed and its pointer null.
C3_CleanupFreesEverything ==
    lastOp = "cleanup_simulation" =>
        /\ \A b \in Buffers : ptr[b] = 0
        /\ \A i \in LastSetupBlocks : ~heap[i].live

\* What the code does establish: the eight buffers it handles are released.
CleanupReleasesHandledBuffers ==
    lastOp = "cleanup_simulation" =>
        \A b \in CleanupFreed : ptr[b] = 0

\* C4: releasing the mesh soup is idempotent: when cleanupTriMesh_DEVICE runs
\* more than once on the same object (an explicit call followed by the
\* destructor), each per-triangle buffer, each per-family buffer, the soup
\* container and the triangle parameter block is freed at most once, and the
\* soup container is never read after it was freed.
C4_ReleaseIdempotent ==
    /\ \A i \in 1..Len(mheap) : mheap[i].frees <= 1
    /\ \A c \in DOMAIN containers : containers[c].frees <= 1
    /\ ~meshErr.readAfterRelease

\* What does hold: a single release frees every block and both containers
\* exactly once.
SingleReleaseFreesOnce ==
    (\A c \in DOMAIN containers : containers[c].frees = 1) =>
        /\ \A i \in 1..Len(mheap) : mheap[i].frees = 1 /\ ~mheap[i].live
        /\ ~meshErr.readAfterRelease

\* the five vectors of a load_meshes call do not all have the same length
LengthsDiffer(in) ==
    Cardinality({Len(in.objfilenames), Len(in.scalings), Len(in.masses), Len(in.inflated),
                 Len(in.inflation_radii)}) > 1

\* C5: load_meshes called with file-name, scaling, mass, inflation-flag and
\* inflation-radius vectors that are not all of the same length ends in the
\* fatal error: no mesh is imported, no buffer is allocated, the soup's triangle
\* count and family count are unchanged, and nothing runs after the error.
C5_MismatchedLoadIsFatal ==
    [][/\ ~meshErr.fatal
       /\ \A in \in LoadInputs :
            (lastOp' = "load_meshes" /\ LengthsDiffer(in) /\ load_meshes(in)) =>
                (meshErr'.fatal /\ UNCHANGED <<soup, tri_params, mheap, containers>>)]_vars

\* a load with unequal vectors ended the run with the soup as constructed
C5_Witness ==
    /\ lastOp = "load_meshes"
    /\ meshErr.fatal
    /\ mheap = <<>>
    /\ soup.nTrianglesInSoup = 0
    /\ soup.numTriangleFamilies = 0

\* the number of triangles of a mesh file
TriangleCount(file) == Len(WavefrontMesh(file).tris)

\* the number of triangles in the files before the k-th
RECURSIVE TrianglesBefore(_, _)
TrianglesBefore(files, k) ==
    IF k <= 1 THEN 0 ELSE TriangleCount(files[k - 1]) + TrianglesBefore(files, k - 1)

\* the family id of every triangle of the soup, in array order
FamilyIds == IF soup.triangleFamily_ID > 0 THEN mheap[soup.triangleFamily_ID].data ELSE <<>>

LaterOperations ==
    {"initialize", "meshSoup_applyRigidBodyMotion", "collectGeneralizedForcesOnMeshSoup",
     "write_meshes", "advance_simulation"}

\* C6: after load_meshes with n mesh files the soup has exactly n families;
\* every triangle of the k-th file (in input order, from 0) has family id k, so
\* the ids are non-decreasing along the triangle array and nTrianglesInSoup is
\* the sum of the files' triangle counts; initialize,
\* meshSoup_applyRigidBodyMotion, collectGeneralizedForcesOnMeshSoup,
\* write_meshes and advance_simulation change neither the family count nor any
\* triangle's family id.
C6_FamiliesFollowFiles ==
    [][/\ \A in \in LoadInputs :
            (lastOp' = "load_meshes" /\ ~LengthsDiffer(in) /\ load_meshes(in)) =>
                LET files == in.objfilenames
                    n == Len(files)
                    total == TrianglesBefore(files, n + 1)
                IN /\ soup'.numTriangleFamilies = n
                   /\ soup'.nTrianglesInSoup = total
                   /\ Len(FamilyIds') = total
                   /\ \A k \in 1..n :
                        \A t \in (TrianglesBefore(files, k) + 1)..TrianglesBefore(files, k + 1) :
                            FamilyIds'[t] = k - 1
                   /\ \A t \in 1..(total - 1) : FamilyIds'[t] <= FamilyIds'[t + 1]
       /\ lastOp' \in LaterOperations =>
            /\ soup'.numTriangleFamilies = soup.numTriangleFamilies
            /\ soup'.nTrianglesInSoup = soup.nTrianglesInSoup
            /\ FamilyIds' = FamilyIds]_vars

\* two files with two and one triangles were loaded, the soup was initialized,
\* moved and written, and the ids are still 0, 0, 1
C6_Witness ==
    /\ lastOp = "write_meshes"
    /\ meshFile.written /\ meshFile.defined
    /\ initialized > 0
    /\ soup.numTriangleFamilies = 2
    /\ soup.nTrianglesInSoup = 3
    /\ FamilyIds = <<0, 0, 1>>

\* dot(cross(p2 - p1, p3 - p1), stored normal) of the triangle as loaded
LoadedWinding ==
    VDot(VCross(VSub(winding.tri.p2, winding.tri.p1), VSub(winding.tri.p3, winding.tri.p1)),
         winding.normal)

\* the same for the node order as stored
StoredWinding ==
    VDot(VCross(VSub(winding.nodes.node2, winding.nodes.node1),
                VSub(winding.nodes.node3, winding.nodes.node1)),
         winding.normal)

\* C7: winding correction at mesh setup: node2 and node3 are swapped exactly
\* when dot(cross(p2 - p1, p3 - p1), stored normal) is negative; after setup the
\* right-hand-rule normal of the stored node order never points opposite the
\* stored normal, a triangle that was already consistent is stored with its
\* nodes unchanged, and node1 is never changed.
C7_WindingCorrected ==
    winding.stored =>
        /\ winding.nodes.node1 = winding.tri.p1
        /\ LoadedWinding < 0 =>
                (winding.nodes.node2 = winding.tri.p3 /\ winding.nodes.node3 = winding.tri.p2)
        /\ LoadedWinding >= 0 =>
                (winding.nodes.node2 = winding.tri.p2 /\ winding.nodes.node3 = winding.tri.p3)
        /\ StoredWinding >= 0

\* a triangle wound against its stored normal was stored with node2, node3 swapped
C7_Witness ==
    /\ winding.stored
    /\ LoadedWinding < 0
    /\ winding.tri.p2 # winding.tri.p3
    /\ winding.nodes.node2 = winding.tri.p3
    /\ winding.nodes.node3 = winding.tri.p2
    /\ StoredWinding > 0

\* the program is about to make this call on the simulator
About(call) == Running /\ CurrentCall = call

\* C8: the mesh coupling exchange is strictly step-ordered: in every coupled
\* step the family motion is pushed before that step's advance_simulation, the
\* forces of an advance are pulled after it and before the next motion push,
\* and between two consecutive advances a pull never follows the push for the
\* next step.
C8_CouplingStepOrdered ==
    [][/\ (demo = "robosimian" /\ About("advance_simulation")) => coupling.pushed
       /\ (About("meshSoup_applyRigidBodyMotion") /\ steps > 0) => coupling.pulled
       /\ About("collectGeneralizedForcesOnMeshSoup") => (steps > 0 /\ ~coupling.pushed)]_vars

\* What does hold: every advance of the coupled run has its motion pushed
\* first, and every pass of the loop pulls once.
PushAndPullBeforeAdvance ==
    [][(demo = "robosimian" /\ About("advance_simulation"))
            => (coupling.pushed /\ coupling.pulled)]_vars

\* the calls that configure the simulator
ConfigurationCalls ==
    {"setBOXdims", "set_K_n_SPH2SPH", "set_K_n_SPH2WALL", "set_K_n_SPH2MESH",
     "set_Gamma_n_SPH2SPH", "set_Gamma_n_SPH2WALL", "set_Gamma_n_SPH2MESH",
     "set_K_t_SPH2SPH", "set_K_t_SPH2WALL", "set_Gamma_t_SPH2SPH", "set_Gamma_t_SPH2WALL",
     "set_mu_t_SPH2SPH", "set_Cohesion_ratio", "set_Adhesion_ratio_S2W", "setPsiFactors",
     "set_gravitational_acceleration", "setParticlePositions", "set_timeStepping",
     "set_timeIntegrator", "set_fixed_stepSize", "set_friction_mode", "set_contactModel",
     "load_meshes"}

\* C9: on every simulator instance initialize() is called exactly once, after
\* all configuration (box dimensions, stiffness and damping, gravity, particle
\* positions, integrator, step size, friction mode, contact law, loaded meshes)
\* and before the first advance_simulation; friction mode and contact law are
\* never set again after initialize().
C9_InitializeOnceAfterConfiguration ==
    /\ initialized <= 1
    /\ pc.phase \in {"loop", "done"} => initialized = 1
    /\ initialized = 0 => steps = 0 /\ ~engine.earlyAdvance
    /\ initialized = 1 =>
            {c \in ConfigurationCalls : \E i \in 1..Len(SetupCalls(demo)) : SetupCalls(demo)[i] = c}
                \subseteq engine.calls
    /\ engine.late \cap ConfigurationCalls = {}
    /\ engine.late \cap {"set_friction_mode", "set_contactModel"} = {}

\* the dam-break program ran to its end: configured with friction mode and
\* contact law, initialized once, advanced twice
C9_Witness ==
    /\ demo = "DamBreak"
    /\ pc.phase = "done"
    /\ {"set_friction_mode", "set_contactModel", "initialize", "advance_simulation"}
            \subseteq engine.calls
    /\ initialized = 1
    /\ steps = 2

\* C10: capacity violation is fatal, never silent: if the broad phase would
\* record more than MAX_COUNT_OF_DEs_PER_SD touching particles in one SD the
\* run ends in the fatal capacity error; otherwise each SD's touch count is at
\* most MAX_COUNT_OF_DEs_PER_SD, every particle is listed in every SD it
\* touches, and no membership write lands outside that SD's slice of the
\* composite list of MAX_COUNT_OF_DEs_PER_SD x nSDs entries.
C10_CapacityViolationFatal ==
    lastOp = "broad_phase" =>
        \E touched \in {[s \in 1..nDEs |-> TouchedSDs(s)]} :
            LET composite == heap[ptr["p_device_DEs_in_SD_composite"]]
                count == heap[ptr["p_device_SD_NumOf_DEs_Touching"]]
                over == \E sd \in 0..(nSDs - 1) :
                            Cardinality({s \in 1..nDEs : sd \in touched[s]})
                                > MAX_COUNT_OF_DEs_PER_SD
            IN /\ capacityErr <=> over
               /\ ~capacityErr =>
                    /\ ~outOfBlock
                    /\ composite.size = MAX_COUNT_OF_DEs_PER_SD * nSDs
                    /\ \A sd \in 0..(nSDs - 1) : count.data[sd + 1] <= MAX_COUNT_OF_DEs_PER_SD
                    /\ \A s \in 1..nDEs : \A sd \in touched[s] :
                            \E slot \in 0..(count.data[sd + 1] - 1) :
                                /\ slot < MAX_COUNT_OF_DEs_PER_SD
                                /\ composite.data[sd * MAX_COUNT_OF_DEs_PER_SD + slot + 1] = s

\* three spheres met in one SD and the run ended in the capacity error
C10_Witness ==
    /\ lastOp = "broad_phase"
    /\ capacityErr
    /\ nDEs = 3
    /\ IsFinite(monoDisperseSphRadius_SU)

\* a broad phase went through with a sphere listed in more than one SD
BroadPhaseListedWitness ==
    /\ lastOp = "broad_phase"
    /\ ~capacityErr
    /\ nDEs > 0
    /\ IsFinite(monoDisperseSphRadius_SU)
    /\ Cardinality(TouchedSDs(1)) > 1

\* the unit system has been derived
UnitsSet == stage \in {"units", "partitioned"}

\* C11: switch_to_SimUnits with a gravity vector of zero magnitude is rejected
\* with a configuration error rather than producing scale factors: it never
\* yields LENGTH_UNIT = 0, never divides the sphere radius by a zero LENGTH_UNIT
\* and never divides the gravity components by a zero magnitude.
C11_ZeroGravityRejected ==
    UnitsSet =>
        /\ LENGTH_UNIT.n # 0
        /\ IsFinite(monoDisperseSphRadius_SU)
        /\ \A c \in {"X", "Y", "Z"} : IsFinite(gravAcc_factor_SU[c])

\* What does hold: with a gravity vector of positive magnitude the length unit
\* is positive and every derived factor is finite.
UnitsFiniteWhenGravityPositive ==
    (UnitsSet /\ magGravAcc(accGrav) > 0) =>
        /\ LENGTH_UNIT.n > 0 /\ LENGTH_UNIT.d > 0
        /\ IsFinite(monoDisperseSphRadius_SU) /\ monoDisperseSphRadius_SU.n > 0
        /\ \A c \in {"X", "Y", "Z"} : IsFinite(gravAcc_factor_SU[c])

\* the number of SDs partition_BD must give along axis a for the current box,
\* radius and density target: the least even number of cells of 2 * r * target
\* that cover the extent
EvenCover(a) ==
    LET cell == 2 * sphere_radius * AVERAGE_SPHERES_PER_SD[a]
    IN CHOOSE h \in {2 * k : k \in 1..box[a]} : h * cell >= box[a] /\ (h - 2) * cell < box[a]

\* nSDs for the current inputs
CurrentSDCount == EvenCover("L") * EvenCover("D") * EvenCover("H")

PartitionSteps == {"partition_BD", "setup_simulation"}

\* the SD size partition_BD must give along axis a for the current inputs and a
\* positive LENGTH_UNIT: the least whole number of length units that covers
\* one of the EvenCover(a) cells of the box
CellSize(a) ==
    CHOOSE sz \in 1..(box[a] * LENGTH_UNIT.d) :
        /\ sz * LENGTH_UNIT.n * EvenCover(a) >= box[a] * LENGTH_UNIT.d
        /\ (sz - 1) * LENGTH_UNIT.n * EvenCover(a) < box[a] * LENGTH_UNIT.d

\* the outputs of a run of partition_BD are those the current inputs determine
OutputsFollowInputs ==
    /\ nSDs_SU' = [a \in Axes |-> EvenCover(a)]
    /\ nSDs' = CurrentSDCount
    /\ SD_SU' = [a \in Axes |-> CellSize(a)]
    /\ BD_frame' = [X |-> Rat(-(EvenCover("L") * CellSize("L")), 2),
                    Y |-> Rat(-(EvenCover("D") * CellSize("D")), 2),
                    Z |-> Rat(-(EvenCover("H") * CellSize("H")), 2)]

PartitionIdempotentWhenLengthUnitPositive ==
    [][(lastOp' \in PartitionSteps /\ LENGTH_UNIT.n > 0) =>
            /\ OutputsFollowInputs
            /\ lastOp \in PartitionSteps => UNCHANGED partVars]_vars

\* the box was partitioned again after its extents had changed
RepartitionedWitness ==
    /\ lastOp = "partition_BD"
    /\ LENGTH_UNIT.n > 0
    /\ box = [a \in Axes |-> MaxBox]
    /\ nSDs = CurrentSDCount
    /\ nSDs > 8

\* the per-family accumulator of the soup, when it is allocated and written
Accumulator == mheap[soup.generalizedForcesPerFamily]

\* C14: collectGeneralizedForcesOnMeshSoup is a scaled read: for every family
\* f it writes out[6f+k] = accumulator[6f+k] x FORCE_SU2UU for k in 0..2 and
\* accumulator[6f+k] x TORQUE_SU2UU for k in 3..5, writes nothing outside
\* indices 0..6*nFamilies-1, and leaves the accumulator and every other soup
\* field unchanged.
C14_CollectIsScaledRead ==
    [][lastOp' = "collectGeneralizedForcesOnMeshSoup" =>
            /\ UNCHANGED <<soup, tri_params, mheap, containers>>
            /\ Len(genForcesOnSoup'.data) <= 6 * soup.numTriangleFamilies
            /\ (soup.generalizedForcesPerFamily > 0 /\ Accumulator.init) =>
                    /\ Len(genForcesOnSoup'.data) = 6 * soup.numTriangleFamilies
                    /\ \A f \in 0..(soup.numTriangleFamilies - 1) : \A k \in 0..5 :
                            genForcesOnSoup'.data[6 * f + k + 1] =
                                [n |-> Accumulator.data[6 * f + k + 1] *
                                        (IF k <= 2 THEN SU2UU.FORCE_SU2UU.n
                                                   ELSE SU2UU.TORQUE_SU2UU.n),
                                 d |-> IF k <= 2 THEN SU2UU.FORCE_SU2UU.d
                                                 ELSE SU2UU.TORQUE_SU2UU.d]]_vars

\* the forces of the second step of a soup of two families were collected
\* under a unit system whose force and torque factors differ
C14_Witness ==
    /\ lastOp = "collectGeneralizedForcesOnMeshSoup"
    /\ steps = 2
    /\ soup.numTriangleFamilies = 2
    /\ genForcesOnSoup.defined
    /\ Len(genForcesOnSoup.data) = 12
    /\ SU2UU.FORCE_SU2UU # SU2UU.TORQUE_SU2UU
    /\ genForcesOnSoup.data[12] = Rat(22 * 9, 2)

\* the host array whose content the device position buffer b is given
HostArrayOf(b) ==
    CASE b = "p_d_CM_X" -> h_X_DE
      [] b = "p_d_CM_Y" -> h_Y_DE
      [] b = "p_d_CM_Z" -> h_Z_DE

\* C15: after setup_simulation the device position arrays hold exactly the
\* nDEs host positions at the same indices (particle i stays at index i in X,
\* Y and Z), and every velocity entry and every pending-velocity-update entry
\* is zero.
C15_UploadKeepsIndices ==
    lastOp = "setup_simulation" =>
        /\ \A b \in PositionBuffers :
                /\ ptr[b] # 0 /\ heap[ptr[b]].live /\ heap[ptr[b]].init
                /\ heap[ptr[b]].size = nDEs
                /\ Len(heap[ptr[b]].data) = nDEs
                /\ \A i \in 1..nDEs : heap[ptr[b]].data[i] = HostArrayOf(b)[i]
        /\ \A b \in VelocityBuffers \cup UpdateBuffers :
                /\ ptr[b] # 0 /\ heap[ptr[b]].live /\ heap[ptr[b]].init
                /\ heap[ptr[b]].size = nDEs
                /\ Len(heap[ptr[b]].data) = nDEs
                /\ \A i \in 1..nDEs : heap[ptr[b]].data[i] = 0

\* three generated particles were uploaded: each is at its own index on the
\* device, at rest
C15_Witness ==
    /\ lastOp = "setup_simulation"
    /\ nDEs = 3
    /\ heap[ptr["p_d_CM_X"]].data = <<-1, 1, 0>>
    /\ heap[ptr["p_d_CM_Y"]].data = <<-1, 1, 1>>
    /\ heap[ptr["p_d_CM_Z"]].data = <<-1, 1, 0>>
    /\ heap[ptr["p_d_CM_ZDOT_update"]].data = <<0, 0, 0>>

\* a load that was given no mesh file has returned
ZeroMeshLoad ==
    loads > 0 /\ ~meshErr.fatal /\ soup.numTriangleFamilies = 0

\* C18: after a load_meshes with zero mesh files the soup has 0 triangles and
\* 0 families, and nothing that follows -- initialize, the motion push, the
\* force pull, the release of the soup -- reads, writes or frees a per-triangle
\* or per-family buffer that was never allocated.
C18_ZeroMeshLoadIsHarmless ==
    ZeroMeshLoad =>
        /\ soup.nTrianglesInSoup = 0
        /\ mheap = <<>>
        /\ ~meshErr.wildAccess
        /\ ~meshErr.invalidFree

\* what does hold for a soup without meshes as long as it is not released: no
\* buffer exists, no family loop touches one, and the force pull writes nothing
ZeroMeshRunIsHarmless ==
    ZeroMeshLoad =>
        /\ soup.nTrianglesInSoup = 0
        /\ mheap = <<>>
        /\ ~meshErr.wildAccess
        /\ ~meshErr.invalidFree
        /\ genForcesOnSoup.data = <<>>
        /\ \A f \in PointerFields : soup[f] = -1

\* a soup without meshes went through initialize, a motion push, a step and a
\* force pull
ZeroMeshRunWitness ==
    /\ ZeroMeshLoad
    /\ lastOp = "collectGeneralizedForcesOnMeshSoup"
    /\ steps = 1

\* q, brought to simulation units by a division by the unit and back by a
\* multiplication, is q again: the result is a number and compares equal
RoundTrips(q, unit) ==
    LET back == RatMul(FDiv(q, unit), unit)
    IN IsFinite(back) /\ RatEq(back, q)

\* C20: a quantity converted from user units to simulation units and back is
\* the original quantity, for the mass unit and the length unit alike; in
\* particular the stored sphere radius in simulation units, multiplied by
\* LENGTH_UNIT, is the sphere radius.
C20_UnitRoundTrip ==
    UnitsSet =>
        /\ \A q \in Radii : RoundTrips(Rat(q, 1), MASS_UNIT)
        /\ \A q \in Radii : RoundTrips(Rat(q, 1), LENGTH_UNIT)
        /\ LET back == RatMul(monoDisperseSphRadius_SU, LENGTH_UNIT)
           IN IsFinite(back) /\ RatEq(back, Rat(sphere_radius, 1))

\* the round trip is exact whenever the gravity set has a positive magnitude
UnitRoundTripWhenGravityPositive ==
    (UnitsSet /\ magGravAcc(accGrav) > 0) =>
        /\ \A q \in Radii : RoundTrips(Rat(q, 1), MASS_UNIT)
        /\ \A q \in Radii : RoundTrips(Rat(q, 1), LENGTH_UNIT)
        /\ LET back == RatMul(monoDisperseSphRadius_SU, LENGTH_UNIT)
           IN IsFinite(back) /\ RatEq(back, Rat(sphere_radius, 1))

\* the first initialize() leaves every family's mass and inflation radius in
\* simulation units: multiplied by MASS_SU2UU and LENGTH_SU2UU they are the
\* loaded values
FamilyRoundTripAtFirstInitialize ==
    [][(lastOp' = "initialize" /\ initialized = 0 /\ soup.numTriangleFamilies > 0
            /\ soup.familyMass_SU > 0 /\ soup.inflation_radii > 0) =>
        \A fam \in 1..soup.numTriangleFamilies :
            /\ RatEq(RatMul(mheap'[soup.familyMass_SU].data[fam], SU2UU'.MASS_SU2UU),
                     mheap[soup.familyMass_SU].data[fam])
            /\ RatEq(RatMul(mheap'[soup.inflation_radii].data[fam], SU2UU'.LENGTH_SU2UU),
                     mheap[soup.inflation_radii].data[fam])]_vars

\* a family of mass 3 and inflation radius 2 was initialized under a unit
\* system whose mass and length factors are 2 and 3
FamilyRoundTripWitness ==
    /\ lastOp = "initialize"
    /\ initialized = 1
    /\ soup.numTriangleFamilies > 0
    /\ soup.familyMass_SU > 0
    /\ mheap[soup.familyMass_SU].data[1] = Rat(3, 2)
    /\ mheap[soup.inflation_radii].data[1] = Rat(2, 3)

\* the step is a call of enableMeshCollision / of an engine step
EnableCall == lastOp' = "enableMeshCollision" /\ lastOp # "enableMeshCollision"
EngineStep == lastOp' = "advance_simulation" /\ steps' = steps + 1

\* C16: mesh collision is one global flag.  An engine step taken while the flag
\* is disabled evaluates no sphere-triangle contact and changes no family force
\* accumulator.  In the robot run the flag is disabled when initialize() is
\* called, it is never disabled afterwards, and it is enabled by one call only:
\* the call made in the first loop iteration whose robot time exceeds the
\* terrain-creation time, so that the engine steps with a robot time up to the
\* terrain-creation time run disabled and all later ones run enabled.
C16_MeshCollisionOneFlag ==
    [][/\ (EngineStep /\ ~meshCfg.mesh_collision_enabled) =>
                /\ ~contact'.mesh
                /\ mheap' = mheap
       /\ demo = "robosimian" =>
            /\ initialized' # initialized =>
                    /\ "disableMeshCollision" \in engine.calls
                    /\ ~meshCfg.mesh_collision_enabled
            /\ (meshCfg.mesh_collision_enabled /\ ~meshCfg'.mesh_collision_enabled) =>
                    initialized = 0
            /\ (EnableCall \/ (~meshCfg.mesh_collision_enabled
                                    /\ meshCfg'.mesh_collision_enabled)) =>
                    /\ EnableCall
                    /\ ~meshCfg.mesh_collision_enabled /\ meshCfg'.mesh_collision_enabled
                    /\ "enableMeshCollision" \notin engine.calls
                    /\ pc.phase = "loop" /\ pc.at = 1
                    /\ engine.hostSteps = pc.switch_at + 1
            /\ EngineStep =>
                    (meshCfg.mesh_collision_enabled <=> engine.hostSteps > pc.switch_at)]_vars

\* the robot run took a step with mesh collision disabled, enabled it in the
\* next iteration and took a step that evaluated sphere-triangle contact and
\* left forces in the accumulator of a loaded family
C16_Witness ==
    /\ demo = "robosimian"
    /\ lastOp = "advance_simulation"
    /\ steps = 2
    /\ engine.hostSteps = 1
    /\ "enableMeshCollision" \in engine.late
    /\ contact.mesh
    /\ soup.numTriangleFamilies > 0
    /\ soup.generalizedForcesPerFamily > 0
    /\ mheap[soup.generalizedForcesPerFamily].init

\* the step is the creation of the plane / a call of disable_BC_by_ID
CreateCall == "Create_BC_Plane" \notin engine.calls /\ "Create_BC_Plane" \in engine'.calls
DisableCall == lastOp' = "disable_BC_by_ID" /\ lastOp # "disable_BC_by_ID"

C19_Lockstep ==
    [][demo = "robosimian" =>
        /\ About("meshSoup_applyRigidBodyMotion") =>
                (steps = pc.iter /\ engine.hostSteps = pc.iter)
        /\ About("advance_simulation") =>
                /\ coupling.pushed /\ coupling.pulled
                /\ steps = pc.iter /\ engine.hostSteps = pc.iter
                /\ steps' = steps + 1 /\ engine'.hostSteps = engine.hostSteps
        /\ About("DoStepDynamics") =>
                /\ steps = engine.hostSteps + 1
                /\ engine'.hostSteps = engine.hostSteps + 1 /\ steps' = steps
        /\ (~About("advance_simulation") /\ ~About("DoStepDynamics")) =>
                (steps' = steps /\ engine'.hostSteps = engine.hostSteps)
        /\ engine'.hostSteps <= steps'
        /\ pc'.iter # pc.iter =>
                (steps' = pc'.iter /\ engine'.hostSteps = pc'.iter)]_vars

\* the robot run has finished its second iteration: both systems took two steps
C19_Witness ==
    /\ demo = "robosimian"
    /\ pc.phase = "done"
    /\ pc.iter = 2
    /\ lastOp = "DoStepDynamics"
    /\ steps = 2
    /\ engine.hostSteps = 2
    /\ ~coupling.pushed /\ ~coupling.pulled

\* the SD count and the SD size in SU along an axis, and the frame component
\* of that axis
FrameOf(a) == BD_frame[CASE a = "L" -> "X" [] a = "D" -> "Y" [] a = "H" -> "Z"]

\* C24: after partition_BD, on each axis the BD frame offset is
\* -0.5 x (SD count x SD size in SU): the SD count is even, and going
\* SD count / 2 whole SDs up from the frame offset arrives exactly at the
\* origin, which is thus an SD boundary and the centre of the grid (as many
\* SDs above it as below); the three BD frame velocities are zero.
C24_FrameCentredOnOrigin ==
    stage = "partitioned" =>
        /\ \A a \in Axes :
                /\ IsFinite(FrameOf(a))
                /\ RatEq(FrameOf(a), Rat(-(nSDs_SU[a] * SD_SU[a]), 2))
                /\ nSDs_SU[a] % 2 = 0
                /\ RatEq(RatAdd(FrameOf(a), Rat((nSDs_SU[a] \div 2) * SD_SU[a], 1)), Rat(0, 1))
                /\ RatEq(RatAdd(FrameOf(a), Rat(nSDs_SU[a] * SD_SU[a], 1)),
                         Rat((nSDs_SU[a] \div 2) * SD_SU[a], 1))
        /\ BD_frame_dot = [X |-> 0, Y |-> 0, Z |-> 0]

\* a box was partitioned into grids of different extents along its axes
C24_Witness ==
    /\ stage = "partitioned"
    /\ LENGTH_UNIT.n > 0
    /\ nSDs_SU["L"] = 4
    /\ nSDs_SU["D"] = 2
    /\ SD_SU["L"] >= 1
    /\ FrameOf("L") = Rat(-(4 * SD_SU["L"]), 2)
    /\ FrameOf("L") # FrameOf("D")

WallStiffestWitness ==
    /\ UnitsSet
    /\ modulusYoung_SPH2SPH < modulusYoung_SPH2WALL
    /\ K_stiffness = modulusYoung_SPH2WALL

\* the per-family pointer fields of the soup, and the two frame pointers
FamilyFields ==
    {"familyMass_SU", "inflated", "inflation_radii", "vel", "omega",
     "generalizedForcesPerFamily"}

\* C27: whenever the soup's family count is greater than 0 every per-family
\* buffer is allocated, with one entry per family (six for the accumulator),
\* also when every loaded mesh has zero triangles; so no loop over the
\* families in initializeTriangles, meshSoup_applyRigidBodyMotion or
\* collectGeneralizedForcesOnMeshSoup goes through a pointer never assigned.
C27_FamilyBuffersAllocated ==
    (life = "alive" /\ soup.numTriangleFamilies > 0) =>
        /\ \A f \in FamilyFields :
                /\ soup[f] > 0
                /\ mheap[soup[f]].live
                /\ mheap[soup[f]].size =
                        (IF f = "generalizedForcesPerFamily" THEN 6 ELSE 1)
                            * soup.numTriangleFamilies
        /\ \A f \in FramePointers :
                /\ tri_params[f] > 0
                /\ mheap[tri_params[f]].live
                /\ mheap[tri_params[f]].size = soup.numTriangleFamilies
        /\ ~meshErr.wildAccess

\* what does hold: the buffers are there whenever the soup has a triangle
FamilyBuffersAllocatedWhenTriangles ==
    (life = "alive" /\ soup.nTrianglesInSoup > 0) =>
        /\ soup.numTriangleFamilies > 0
        /\ \A f \in FamilyFields :
                /\ soup[f] > 0
                /\ mheap[soup[f]].live
                /\ mheap[soup[f]].size =
                        (IF f = "generalizedForcesPerFamily" THEN 6 ELSE 1)
                            * soup.numTriangleFamilies
        /\ \A f \in FramePointers :
                /\ tri_params[f] > 0
                /\ mheap[tri_params[f]].live
                /\ mheap[tri_params[f]].size = soup.numTriangleFamilies
        /\ ~meshErr.wildAccess

\* a soup of families without a triangle went through a family loop
EmptyFamiliesWitness ==
    /\ soup.numTriangleFamilies > 0
    /\ soup.nTrianglesInSoup = 0
    /\ meshErr.wildAccess

\* the masses and inflation radii load_meshes can be given
GivenMasses == {Rat(p.m, 1) : p \in MeshPresets}
GivenRadii == {Rat(p.r, 1) : p \in MeshPresets}

\* the families' buffers exist
FamiliesStored ==
    soup.numTriangleFamilies > 0 /\ soup.familyMass_SU > 0 /\ soup.inflation_radii > 0

\* C28: the division of a family's mass by MASS_SU2UU and of its inflation
\* radius by LENGTH_SU2UU is applied exactly once before the first step,
\* whatever calls precede it: the first initialize() divides the loaded
\* values, a later initialize() leaves them alone, and at the first
\* advance_simulation every stored mass and radius, multiplied by its factor,
\* is a mass and a radius that was given to load_meshes.
C28_DividedExactlyOnce ==
    [][/\ (lastOp' = "initialize" /\ initialized' = initialized + 1 /\ FamiliesStored) =>
            \A fam \in 1..soup.numTriangleFamilies :
                LET mass == mheap[soup.familyMass_SU].data[fam]
                    radius == mheap[soup.inflation_radii].data[fam]
                    mass2 == mheap'[soup.familyMass_SU].data[fam]
                    radius2 == mheap'[soup.inflation_radii].data[fam]
                IN IF initialized = 0
                   THEN /\ RatEq(RatMul(mass2, SU2UU'.MASS_SU2UU), mass)
                        /\ RatEq(RatMul(radius2, SU2UU'.LENGTH_SU2UU), radius)
                   ELSE /\ RatEq(mass2, mass)
                        /\ RatEq(radius2, radius)
       /\ (lastOp' = "advance_simulation" /\ steps = 0 /\ steps' = 1 /\ FamiliesStored) =>
            \A fam \in 1..soup.numTriangleFamilies :
                /\ \E m \in GivenMasses :
                        RatEq(RatMul(mheap[soup.familyMass_SU].data[fam], SU2UU.MASS_SU2UU), m)
                /\ \E r \in GivenRadii :
                        RatEq(RatMul(mheap[soup.inflation_radii].data[fam], SU2UU.LENGTH_SU2UU), r)
      ]_vars

\* what does hold: with a single initialize() before the first step the stored
\* values are the given ones divided once
DividedOnceBySingleInitialize ==
    [][(lastOp' = "advance_simulation" /\ steps = 0 /\ steps' = 1 /\ FamiliesStored
            /\ initialized = 1) =>
            \A fam \in 1..soup.numTriangleFamilies :
                /\ \E m \in GivenMasses :
                        RatEq(RatMul(mheap[soup.familyMass_SU].data[fam], SU2UU.MASS_SU2UU), m)
                /\ \E r \in GivenRadii :
                        RatEq(RatMul(mheap[soup.inflation_radii].data[fam], SU2UU.LENGTH_SU2UU), r)
      ]_vars

\* the first step was taken after a single initialize() of a loaded soup
SingleInitializeWitness ==
    /\ lastOp = "advance_simulation"
    /\ steps = 1
    /\ initialized = 1
    /\ FamiliesStored
    /\ mheap[soup.familyMass_SU].data[1] = Rat(3, 2)

\* C29: write_meshes reads the broad-phase frame of every family.  Whenever it
\* writes a file (output mode other than NONE) for a soup with at least one
\* triangle, meshSoup_applyRigidBodyMotion has been called before and has set
\* the frame of every family, so every point written is defined; with output
\* mode NONE it writes no file and reads no frame.
C29_FramesSetBeforeWrite ==
    [][(About("write_meshes") /\ lastOp' = "write_meshes") =>
        IF meshCfg.file_write_mode = "NONE"
        THEN meshFile' = meshFile /\ ~meshFile'.written
        ELSE /\ meshFile'.written
             /\ soup.nTrianglesInSoup > 0 =>
                    /\ "meshSoup_applyRigidBodyMotion" \in engine.calls
                    /\ tri_params.fam_frame_broad > 0
                    /\ mheap[tri_params.fam_frame_broad].init
                    /\ Len(mheap[tri_params.fam_frame_broad].data) = soup.numTriangleFamilies
                    /\ meshFile'.defined
                    /\ Len(meshFile'.points) = 3 * soup.nTrianglesInSoup]_vars

\* the robot run wrote the meshes of a soup of three triangles in two families
C29_Witness ==
    /\ demo = "robosimian"
    /\ lastOp = "write_meshes"
    /\ meshCfg.file_write_mode = "CSV"
    /\ soup.numTriangleFamilies = 2
    /\ soup.nTrianglesInSoup = 3
    /\ meshFile.written /\ meshFile.defined
    /\ Len(meshFile.points) = 9

\* the robot run passed write_meshes with output mode NONE
NoFileWitness ==
    /\ demo = "robosimian"
    /\ lastOp = "write_meshes"
    /\ meshCfg.file_write_mode = "NONE"
    /\ ~meshFile.written

\* a caller that writes the meshes before any motion push: write_meshes does
\* not test the frames and reads them unset
WriteBeforePushReadsUnsetFrames ==
    /\ lastOp = "write_meshes"
    /\ meshFile.written
    /\ soup.nTrianglesInSoup > 0
    /\ ~meshFile.defined

\* the step applies the collected forces to the mesh bodies
AccumulateCall == About("Accumulate_force") /\ lastOp' = "Accumulate_force"

\* the term the step has added to the accumulator of body i (counted from 0)
AddedTerm(i) == engine'.body_forces[i + 1][Len(engine'.body_forces[i + 1])]

\* C25: in every coupled step every mesh body i is given entries 6i, 6i+1,
\* 6i+2 of the collected array as force and entries 6i+3, 6i+4, 6i+5 as
\* torque: its own family's row and no component of another family's row.
C25_BodyGetsOwnRow ==
    [][AccumulateCall =>
        /\ Len(engine'.body_forces) = num_mesh_bodies
        /\ \A i \in 0..(num_mesh_bodies - 1) :
                /\ AddedTerm(i).force = <<6 * i, 6 * i + 1, 6 * i + 2>>
                /\ AddedTerm(i).torque = <<6 * i + 3, 6 * i + 4, 6 * i + 5>>]_vars

\* what does hold: the three force components and the first two torque
\* components are the body's own, and the first body gets its whole row
OwnRowButLastTorque ==
    [][AccumulateCall =>
        /\ Len(engine'.body_forces) = num_mesh_bodies
        /\ \A i \in 0..(num_mesh_bodies - 1) :
                /\ AddedTerm(i).force = <<6 * i, 6 * i + 1, 6 * i + 2>>
                /\ AddedTerm(i).torque[1] = 6 * i + 3
                /\ AddedTerm(i).torque[2] = 6 * i + 4
                /\ i = 0 => AddedTerm(i).torque[3] = 6 * i + 5]_vars

\* the forces were applied to two mesh bodies
TwoBodiesWitness ==
    /\ lastOp = "Accumulate_force"
    /\ Len(engine.body_forces) = 2
    /\ Len(engine.body_forces[2]) = 1
    /\ engine.body_forces[2][1].force = <<6, 7, 8>>

\* the rigid-body system takes its step
HostStepCall == About("DoStepDynamics") /\ lastOp' = "DoStepDynamics"

\* every mesh body's accumulator holds the one term added in this pass
OnlyThisPass ==
    /\ Len(engine.body_forces) = num_mesh_bodies
    /\ \A i \in 1..num_mesh_bodies :
            /\ Len(engine.body_forces[i]) = 1
            /\ engine.body_forces[i][1].iter = pc.iter

\* C30: in the coupled loop every mesh body's accumulator is emptied at the
\* start of each iteration, before the collected forces are accumulated onto
\* it, so the force and torque acting on a body during a step are only the
\* values collected in that iteration, never a sum over earlier iterations.
C30_AccumulatorsEmptiedEachPass ==
    [][/\ AccumulateCall =>
            /\ Len(engine.body_forces) = num_mesh_bodies
            /\ \A i \in 1..num_mesh_bodies : engine.body_forces[i] = <<>>
       /\ HostStepCall => OnlyThisPass]_vars

\* the second step of the rigid-body system, two mesh bodies, each with the
\* one term of the second pass
C30_Witness ==
    /\ lastOp = "DoStepDynamics"
    /\ engine.hostSteps = 2
    /\ Len(engine.body_forces) = 2
    /\ \A i \in 1..2 :
            /\ Len(engine.body_forces[i]) = 1
            /\ engine.body_forces[i][1].iter = 1

\* a broad-phase unit of the step has an append left to make
BroadOutstanding == \E w \in kernel.work : w.phase = "broad"

\* a narrow-phase unit of the step has not read its list or has a
\* contribution left to add
NarrowOutstanding == \E u \in kernel.launched \cup kernel.work : u.phase = "narrow"

\* every SD lists exactly the spheres that touch it
ListsComplete ==
    \A sd \in KernelSDs :
        MembersOf(sd) = {s \in KernelSpheres : sd \in TouchedAlongAxis(kernel.X[s])}

\* C21: within one step the phases run in the order broad phase, narrow
\* phase, integration, with a full barrier between consecutive phases: no
\* narrow-phase unit reads a membership list before every broad-phase unit of
\* the step has finished, and no integration unit reads a pending update
\* before every narrow-phase unit of the step has finished.
C21_PhasesInOrderWithBarriers ==
    [][/\ lastOp' = "launch_broad_phase" => kernel.phase = "boundary"
       /\ lastOp' = "launch_narrow_phase" => kernel.phase = "broad"
       /\ lastOp' = "launch_integration" => kernel.phase = "narrow"
       /\ lastOp' = "narrow_read" => (~BroadOutstanding /\ ListsComplete)
       /\ lastOp' = "integrate" => (~BroadOutstanding /\ ~NarrowOutstanding)]_vars

\* an integration unit of the second step has run on a sphere that the narrow
\* phase of the first step had pushed
C21_Witness ==
    /\ lastOp = "integrate"
    /\ kernel.stepsDone = 1
    /\ \E s \in KernelSpheres : kernel.total[s] # 0

\* the appends made to SD sd and the contributions added to sphere s in this step
AppendsTo(sd) == {w \in kernel.done : w.phase = "broad" /\ w.on = sd}
AddsTo(s) == {w \in kernel.done : w.phase = "narrow" /\ w.on = s}

RECURSIVE SumOfWrites(_)
SumOfWrites(S) ==
    IF S = {} THEN 0
    ELSE LET w == CHOOSE w \in S : TRUE
         IN w.c + SumOfWrites(S \ {w})

\* C22: concurrent writers lose no update: for every interleaving of the
\* units of a phase the touch count of an SD is the number of appends made to
\* it, with each appended index stored once, and the pending update of a
\* sphere is the sum of the contributions added to it, whatever their order.
C22_NoLostUpdate ==
    kernel.phase \in {"broad", "narrow"} =>
        /\ \A sd \in KernelSDs :
            /\ kernel.SD_NumOf_DEs_Touching[sd] = Cardinality(AppendsTo(sd))
            /\ \A w \in AppendsTo(sd) :
                    Cardinality({i \in 1..MAX_COUNT_OF_DEs_PER_SD :
                                    kernel.DEs_in_SD_composite[sd][i] = w.unit}) = 1
        /\ \A s \in KernelSpheres : kernel.XDOT_update[s] = SumOfWrites(AddsTo(s))

\* the narrow phase has finished; an SD was appended to by two units, and a
\* sphere was given a contribution by the units of two SDs
C22_Witness ==
    /\ kernel.phase = "narrow"
    /\ Synchronized
    /\ \E sd \in KernelSDs : Cardinality(AppendsTo(sd)) = 2
    /\ \E s \in KernelSpheres :
            /\ Cardinality(AddsTo(s)) = 2
            /\ kernel.XDOT_update[s] \in {2, -2}

\* the integration unit that takes the step
IntegratedSphere == CHOOSE s \in KernelSpheres : Unit("integration", s) \in kernel.launched \ kernel'.launched

\* C23: at every step boundary (immediately after setup_simulation and after
\* every completed step) every pending velocity update is zero: integration
\* first adds the update to the velocity, then advances the position with the
\* new velocity, then clears the update, so no contribution of one step is
\* applied again in a later step.
C23_UpdatesZeroAtStepBoundary ==
    /\ [](kernel.phase = "boundary" =>
            \A s \in KernelSpheres :
                /\ kernel.XDOT_update[s] = 0
                /\ kernel.XDOT[s] = kernel.total[s])
    /\ [][lastOp' = "integrate" =>
            LET s == IntegratedSphere
            IN /\ kernel'.XDOT[s] = kernel.XDOT[s] + kernel.XDOT_update[s]
               /\ kernel'.X[s] = kernel.X[s] + kernel'.XDOT[s]
               /\ kernel'.XDOT_update[s] = 0]_vars

\* the boundary after the second step; the first sphere was pushed in both steps
C23_Witness ==
    /\ kernel.phase = "boundary"
    /\ kernel.stepsDone = 2
    /\ kernel.X = <<-3, 5>>
    /\ kernel.XDOT = <<-2, 2>>
    /\ kernel.XDOT_update = <<0, 0>>

====
